---- MODULE Spec2Model ----
(***************************************************************************)
(* Verification model of croit/mcp-croit-ceph.                             *)
(*                                                                         *)
(*   SpecCache   ResponseCache (src/src/optimization/token_optimizer.py)   *)
(*   SpecSearch  CroitLogSearchClient.search_logs and its result cache     *)
(*               (src/src/logs/croit_log_tools.py)                         *)
(*   SpecStream  the WebSocket read loops of _execute_websocket_query and  *)
(*               _execute_croit_websocket                                  *)
(*   SpecZip     _extract_logs_from_zip                                    *)
(*   SpecOptimize  one call of optimize_api_response, truncate_response,   *)
(*               apply_filters or create_smart_summary                     *)
(*               (src/src/optimization/token_optimizer.py)                 *)
(*   SpecDrill   summaries and drill-downs by reference over the store of  *)
(*               TokenOptimizer                                            *)
(*   SpecParse   LogSearchIntentParser.parse                               *)
(*   SpecTool    call_tool_handler and the handlers it dispatches to       *)
(*               (src/mcp-croit-ceph.py)                                   *)
(*   SpecLog     handle_log_search and handle_log_check, the entry points  *)
(*               of the log tools                                          *)
(*   SpecResolve  _resolve_refs_in_schema and resolve_references, call by  *)
(*               call                                                      *)
(*   SpecShare   search_logs, search_optimized and optimize_response_size  *)
(*               over results that share their log dicts                   *)
(*                                                                         *)
(* Every specification initialises all variables; the variables of the     *)
(* other components stay at their initial value.                           *)
(***************************************************************************)
EXTENDS Integers, Sequences, FiniteSets, TLC

VARIABLES
    now,            \* the wall clock, in seconds (time.time(), datetime.now())
    ticks,          \* number of clock advances taken so far
    max_size,       \* ResponseCache.max_size
    cache,          \* ResponseCache._cache: key -> CacheEntry
    access_times,   \* ResponseCache._access_times: insertion-ordered dict
    op,             \* the last ResponseCache call: name, key, returned value
    lastUse,        \* history: stored key -> time of its latest set or successful get
    client_cache,   \* CroitLogSearchClient.cache: cache_key -> [timestamp, data]
    pc,             \* per search_logs call: where the coroutine stands
    frame,          \* per call: its arguments and what each channel did
    result,         \* per call: the value search_logs returned
    ws_fn,          \* which function runs the stream: "client" or "direct"
    ws_pc,          \* "connect", "loop" (at the while test), "done", "raised"
    elapsed,        \* seconds since the loop's start time was taken
    ws_logs,        \* logs: the records collected so far
    control_messages, \* control_messages of _execute_croit_websocket
    ws_ret,         \* the value the function returned
    ws_hist,        \* history: how the loop ended and what it read when
    zip_data,       \* the archive handed to _extract_logs_from_zip
    zip_pc,         \* "open", "files", "done" (returned logs), "raised"
    zip_i,          \* number of files of the archive processed so far
    zip_logs,       \* logs: the records collected so far
    _last_responses,   \* TokenOptimizer._last_responses: response id -> data
    _last_response_id, \* TokenOptimizer._last_response_id
    opt_time,       \* number of time.time() readings taken for response ids
    opt_call,       \* the last optimizer call: function, arguments, returned value
    origin,         \* history: response id -> the backend data it was issued for
    parse_call,     \* the last LogSearchIntentParser.parse call: text and intent
    tool_pc,        \* call_tool_handler: "idle", "handler", "request"
    tool_frame,     \* the tool call in progress: mode, name, arguments
    tool_log,       \* how each finished tool call ended, oldest first
    log_args,       \* the arguments object the caller of the log tools holds
    log_calls,      \* the finished log tool calls, oldest first
    res_fn,         \* the resolver running: "schema", "swagger" or None
    res_doc,        \* the OpenAPI document being resolved
    res_stack,      \* the calls of the resolver still to run, innermost last
    res_hist,       \* history: what the calls run so far did
    objects,        \* the log and event dicts alive, each under its identity
    cache_entry,    \* CroitLogSearchClient.cache entry of the query, by reference
    share_hist      \* history: what was stored, and what each call returned

cacheVars == <<max_size, cache, access_times, op, lastUse>>
searchVars == <<client_cache, pc, frame, result>>
streamVars == <<ws_fn, ws_pc, elapsed, ws_logs, control_messages, ws_ret, ws_hist>>
zipVars == <<zip_data, zip_pc, zip_i, zip_logs>>
optVars == <<_last_responses, _last_response_id, opt_time, opt_call, origin>>
parseVars == <<parse_call>>
toolVars == <<tool_pc, tool_frame, tool_log>>
logVars == <<log_args, log_calls>>
resolveVars == <<res_fn, res_doc, res_stack, res_hist>>
shareVars == <<objects, cache_entry, share_hist>>
vars == <<now, ticks, cacheVars, searchVars, streamVars, zipVars, optVars, parseVars, toolVars,
          logVars, resolveVars, shareVars>>

(***************************************************************************)
(* Bounds of the model.                                                    *)
(***************************************************************************)
MaxTicks == 2
MaxCacheSize == 2
\* number of search_logs calls that may be in progress at once
MaxCalls == 1
\* log lines and control messages one stream delivers at most
MaxStreamLogs == 2
MaxControl == 1
\* length of the longest file content in an archive
MaxContentLen == 4
\* length of the longest response list handed to the optimizer
MaxItems == 102
\* number of summaries stored in a drill-down session
MaxSummaries == 2
\* number of words in the longest search text
MaxWords == 3
\* number of tool calls the server handles in one session
MaxToolCalls == 2
\* number of log tool calls made with the caller's arguments objects
MaxLogCalls == 2
\* number of schemas in the longest chain of references of a document
ChainLength == 7
\* number of search_logs, search_optimized and optimize_response_size calls
MaxShareCalls == 2

\* Amounts by which the clock advances in one step (seconds).
Delays == {1, 60}

None == "None"

(***************************************************************************)
(* Clock                                                                   *)
(***************************************************************************)
Tick(d) ==
    /\ ticks < MaxTicks
    /\ now' = now + d
    /\ ticks' = ticks + 1

(***************************************************************************)
(* Strings are sequences of one-character strings, so that the substring   *)
(* tests of the source can be computed.                                    *)
(***************************************************************************)
lower(ch) ==
    CASE ch = "S" -> "s"
      [] ch = "L" -> "l"
      [] ch = "A" -> "a"
      [] OTHER -> ch

upper(ch) ==
    CASE ch = "g" -> "G"
      [] ch = "e" -> "E"
      [] ch = "t" -> "T"
      [] ch = "p" -> "P"
      [] ch = "o" -> "O"
      [] ch = "s" -> "S"
      [] OTHER -> ch

StrLower(s) == [i \in 1..Len(s) |-> lower(s[i])]
StrUpper(s) == [i \in 1..Len(s) |-> upper(s[i])]

\* Python's `pattern in s`
Contains(s, pattern) ==
    \E i \in 0..(Len(s) - Len(pattern)) :
        \A j \in 1..Len(pattern) : s[i + j] = pattern[j]

UrlStatus == <<"/", "s", "t", "a", "t", "u", "s">>
UrlStats  == <<"/", "S", "t", "a", "t", "s">>
UrlPools  == <<"/", "p", "o", "o", "l", "s">>

MethodGetLower == <<"g", "e", "t">>
MethodGet == <<"G", "E", "T">>

\* the ttl argument of set: <<>> is None (the endpoint default), <<n>> is n
\* The calls the environment makes: set(url, method, data, params, ttl)
SetCalls ==
    { [url |-> UrlStatus, method |-> MethodGetLower, data |-> "d1", params |-> None, ttl |-> <<>>],
      [url |-> UrlStatus, method |-> MethodGet, data |-> "d2", params |-> None, ttl |-> <<>>],
      [url |-> UrlStats, method |-> MethodGet, data |-> "d1", params |-> None, ttl |-> <<1>>],
      [url |-> UrlPools, method |-> MethodGet, data |-> "d1", params |-> "p", ttl |-> <<>>] }

\* get(url, method, params)
GetCalls ==
    { [url |-> UrlStatus, method |-> MethodGetLower, params |-> None],
      [url |-> UrlStats, method |-> MethodGet, params |-> None],
      [url |-> UrlPools, method |-> MethodGet, params |-> "p"] }

(***************************************************************************)
(* CacheEntry                                                              *)
(***************************************************************************)
CacheEntry(data, timestamp, ttl) ==
    [data |-> data, timestamp |-> timestamp, ttl |-> ttl]

is_expired(entry, t) == t > (entry.timestamp + entry.ttl)

(***************************************************************************)
(* ResponseCache                                                           *)
(***************************************************************************)
default_ttl == 300
StatusTtl == 60
StatsTtl == 180
ListTtl == 600

\* key_data = f"{method.upper()}:{url}" (+ ":" + sorted params when truthy);
\* the md5 digest of key_data is represented by key_data itself.
_generate_key(url, method, params) ==
    IF params # None
    THEN StrUpper(method) \o <<":">> \o url \o <<":", params>>
    ELSE StrUpper(method) \o <<":">> \o url

Keys == {_generate_key(c.url, c.method, c.params) : c \in SetCalls}

\* The TTL ladder of set
SelectTtl(url, ttl) ==
    IF ttl # <<>> THEN ttl[1]
    ELSE IF Contains(StrLower(url), <<"/", "s", "t", "a", "t", "u", "s">>)
            \/ Contains(StrLower(url), <<"/", "h", "e", "a", "l", "t", "h">>)
         THEN StatusTtl
    ELSE IF Contains(StrLower(url), <<"/", "s", "t", "a", "t", "s">>)
            \/ Contains(StrLower(url), <<"/", "m", "e", "t", "r", "i", "c", "s">>)
         THEN StatsTtl
    ELSE IF Contains(StrLower(url), <<"/", "l", "i", "s", "t">>)
            \/ Contains(StrLower(url), <<"/", "a", "l", "l">>)
         THEN ListTtl
    ELSE default_ttl

\* An insertion-ordered dict is a sequence of [k, v] pairs.
DictKeys(d) == {d[i].k : i \in 1..Len(d)}
DictDel(d, key) == SelectSeq(d, LAMBDA e : e.k # key)
\* d[key] = v: an existing key keeps its position, a new one goes last
DictPut(d, key, v) ==
    IF key \in DictKeys(d)
    THEN [i \in 1..Len(d) |-> IF d[i].k = key THEN [k |-> key, v |-> v] ELSE d[i]]
    ELSE Append(d, [k |-> key, v |-> v])

\* min(d.keys(), key=lambda k: d[k]): the first key with the smallest value
DictMinKey(d) ==
    LET i == CHOOSE i \in 1..Len(d) :
                 /\ \A j \in 1..Len(d) : d[i].v <= d[j].v
                 /\ \A j \in 1..(i - 1) : d[j].v > d[i].v
    IN d[i].k

\* function restricted to its domain minus one key
Without(f, key) == [k \in (DOMAIN f) \ {key} |-> f[k]]
With(f, key, v) == [k \in (DOMAIN f) \cup {key} |-> IF k = key THEN v ELSE f[k]]

\* The state of a ResponseCache as a record
CacheState(c, a) == [cache |-> c, access |-> a]

\* variant: evicts the entry inserted first, whatever its access time
_evict_lru_fifo(st) ==
    IF st.access = <<>>
    THEN st
    ELSE LET lru_key == st.access[1].k
         IN CacheState(Without(st.cache, lru_key), DictDel(st.access, lru_key))

_evict_lru(st) ==
    IF st.access = <<>>
    THEN st
    ELSE LET lru_key == DictMinKey(st.access)
         IN CacheState(Without(st.cache, lru_key), DictDel(st.access, lru_key))

\* variant: an expired entry is purged from _cache only
get_keepsAccessTime(st, key, t) ==
    IF key \notin DOMAIN st.cache
    THEN [st |-> st, ret |-> None]
    ELSE IF is_expired(st.cache[key], t)
    THEN [st |-> CacheState(Without(st.cache, key), st.access), ret |-> None]
    ELSE [st |-> CacheState(st.cache, DictPut(st.access, key, t)),
          ret |-> st.cache[key].data]

\* get: the new state and the returned value
get(st, key, t) ==
    IF key \notin DOMAIN st.cache
    THEN [st |-> st, ret |-> None]
    ELSE IF is_expired(st.cache[key], t)
    THEN [st |-> CacheState(Without(st.cache, key),
                            IF key \in DictKeys(st.access)
                            THEN DictDel(st.access, key) ELSE st.access),
          ret |-> None]
    ELSE [st |-> CacheState(st.cache, DictPut(st.access, key, t)),
          ret |-> st.cache[key].data]

\* variant: evicts only once the cache is over its capacity
set_evictsLate(st, key, data, ttl, size, t) ==
    LET st1 == IF Cardinality(DOMAIN st.cache) > size THEN _evict_lru(st) ELSE st
    IN CacheState(With(st1.cache, key, CacheEntry(data, t, ttl)),
                  DictPut(st1.access, key, t))

set(st, key, data, ttl, size, t) ==
    LET st1 == IF Cardinality(DOMAIN st.cache) >= size THEN _evict_lru(st) ELSE st
    IN CacheState(With(st1.cache, key, CacheEntry(data, t, ttl)),
                  DictPut(st1.access, key, t))

\* variant: clear empties _cache only
clear_entriesOnly(st) == CacheState(<<>>, st.access)

clear(st) == CacheState(<<>>, <<>>)

(***************************************************************************)
(* Actions of the ResponseCache.  op records the call just made: its name, *)
(* key, stored argument and returned value, the keys it removed, and       *)
(* whether the key was stored before the call.                             *)
(***************************************************************************)
OpRecord(name, key, arg, ret, removed, stored) ==
    [name |-> name, key |-> key, arg |-> arg, ret |-> ret,
     removed |-> removed, stored |-> stored]

CacheGet(url, method, params) ==
    LET key == _generate_key(url, method, params)
        r == get(CacheState(cache, access_times), key, now)
    IN /\ cache' = r.st.cache
       /\ access_times' = r.st.access
       /\ op' = OpRecord("get", key, None, r.ret,
                         (DOMAIN cache) \ (DOMAIN r.st.cache), key \in DOMAIN cache)
       /\ lastUse' = [k \in DOMAIN r.st.cache |->
                          IF k = key /\ r.ret # None THEN now ELSE lastUse[k]]
       /\ UNCHANGED <<max_size, now, ticks, searchVars, streamVars, zipVars, optVars, parseVars, toolVars, logVars, resolveVars, shareVars>>

CacheSet(url, method, data, params, ttl) ==
    LET key == _generate_key(url, method, params)
        st == set(CacheState(cache, access_times), key, data,
                  SelectTtl(url, ttl), max_size, now)
    IN /\ cache' = st.cache
       /\ access_times' = st.access
       /\ op' = OpRecord("set", key, data, None,
                         (DOMAIN cache) \ (DOMAIN st.cache), key \in DOMAIN cache)
       /\ lastUse' = [k \in DOMAIN st.cache |-> IF k = key THEN now ELSE lastUse[k]]
       /\ UNCHANGED <<max_size, now, ticks, searchVars, streamVars, zipVars, optVars, parseVars, toolVars, logVars, resolveVars, shareVars>>

CacheClear ==
    LET st == clear(CacheState(cache, access_times))
    IN /\ cache' = st.cache
       /\ access_times' = st.access
       /\ op' = OpRecord("clear", <<>>, None, None, DOMAIN cache, FALSE)
       /\ lastUse' = <<>>
       /\ UNCHANGED <<max_size, now, ticks, searchVars, streamVars, zipVars, optVars, parseVars, toolVars, logVars, resolveVars, shareVars>>

CacheTick ==
    /\ \E d \in Delays : Tick(d)
    /\ op' = OpRecord("tick", <<>>, None, None, {}, FALSE)
    /\ UNCHANGED <<max_size, cache, access_times, lastUse, searchVars, streamVars, zipVars, optVars, parseVars, toolVars, logVars, resolveVars, shareVars>>

InitClock ==
    /\ now = 0
    /\ ticks = 0

\* ResponseCache.__init__ with the given capacity
NewCache(size) ==
    /\ max_size = size
    /\ cache = <<>>
    /\ access_times = <<>>
    /\ op = OpRecord("init", <<>>, None, None, {}, FALSE)
    /\ lastUse = <<>>

(***************************************************************************)
(* CroitLogSearchClient.search_logs                                        *)
(***************************************************************************)
Calls == 1..MaxCalls

cache_ttl == 300
\* timedelta.seconds is the seconds field of a timedelta: the days are not in it
SecondsPerDay == 86400
TimedeltaSeconds(d) == d % SecondsPerDay

\* Amounts by which the clock advances between the steps of a search.
SearchDelays == {150, 86400}

Digit(d) == <<"0", "1", "2", "3", "4", "5", "6", "7", "8", "9">>[d + 1]
\* str(n) for 0 <= n < 100
Str(n) == IF n < 10 THEN <<Digit(n)>> ELSE <<Digit(n \div 10), Digit(n % 10)>>

\* md5(f"{search_query}{limit}"): the digest is represented by the digested text
cache_key(search_query, limit) == search_query \o Str(limit)

\* The search_logs calls the environment makes
SearchInputs ==
    { [search_query |-> <<"o", "s", "d">>, limit |-> 1],
      [search_query |-> <<"o", "s", "d">>, limit |-> 10] }

\* Log records the backend may deliver
LogRecords == { [MESSAGE |-> "m1", level |-> "ERROR"] }
\* The lists of records one backend answer may hold (all shorter than
\* ResultLimit, where the prioritised selection of line 421 does not apply)
LogLists == { <<>>, <<[MESSAGE |-> "m1", level |-> "ERROR"]>> }

\* What awaiting _execute_websocket_query ends in: the collected logs, or an
\* exception raised by connect or send.
WsExceptions == {"WebSocketException", "OSError", "TimeoutError", "Exception"}
\* What _execute_http_query meets: an answer with logs, or one of the failures
\* it logs and swallows.
HttpFailures == {"status", "ClientError", "TimeoutError", "JSONDecodeError"}
\* kind "ok" is status 200 with a JSON body whose "logs" are `body`
HttpOutcomes ==
    {[kind |-> "ok", body |-> logs] : logs \in LogLists}
        \cup {[kind |-> f, body |-> <<>>] : f \in HttpFailures}

\* The bookkeeping of one call: its arguments, what the cache check found
\* ("absent", or "fresh"/"stale" by the entry's true age), how the WebSocket
\* attempt ended (None, "ok", the exception, "failed" once the fallback has
\* answered) and how the HTTP attempt ended.
NoFrame == [input |-> <<>>, lookup |-> None, ws |-> None, http |-> None]
NoResult == [returned |-> FALSE]

\* variant: a bare `except Exception`
CaughtBySearchLogs_any(exc) == TRUE

\* The except clause of search_logs (lines 399-404)
CaughtBySearchLogs(exc) ==
    exc \in {"WebSocketException", "ConnectionError", "OSError", "TimeoutError"}

\* variant: the comparison of the freshness test turned around
IsFresh_reversed(cached, t) == TimedeltaSeconds(t - cached.timestamp) > cache_ttl

\* The freshness test of the cache check (line 376)
IsFresh(cached, t) == TimedeltaSeconds(t - cached.timestamp) < cache_ttl

\* The cache check (lines 373-377)
CacheCheck(cc, key, t) == key \in DOMAIN cc /\ IsFresh(cc[key], t)

Count(logs, level) == Cardinality({i \in 1..Len(logs) : logs[i].level = level})

_generate_insights(logs) ==
    IF logs = <<>>
    THEN [summary |-> "No logs found matching the search criteria", severity |-> "normal"]
    ELSE IF Count(logs, "FATAL") > 0
    THEN [summary |-> "CRITICAL", severity |-> "critical"]
    ELSE IF Count(logs, "ERROR") > 20
    THEN [summary |-> "HIGH", severity |-> "high"]
    ELSE IF Count(logs, "ERROR") > 5
    THEN [summary |-> "MEDIUM", severity |-> "medium"]
    ELSE [summary |-> "Analyzed", severity |-> "normal"]

ResultLimit == 100

\* The result search_logs builds from the logs of the backend (lines 412-459).
\* query and intent are functions of the search text; patterns and summary are
\* functions of the logs, as insights is.
BuildResult(input, logs) ==
    [returned |-> TRUE,
     query |-> input.search_query,
     total_count |-> Len(logs),
     results |-> SubSeq(logs, 1, IF Len(logs) < ResultLimit THEN Len(logs) ELSE ResultLimit),
     insights |-> _generate_insights(logs),
     truncation_method |-> "simple_limit"]

\* _execute_http_query returns the logs of a good answer and [] on every failure
HttpLogs(outcome) == IF outcome.kind \in HttpFailures THEN <<>> ELSE outcome.body

\* Lines 412-464: build the result, write it to the cache, return it.
Finish(c, logs) ==
    LET key == cache_key(frame[c].input.search_query, frame[c].input.limit)
        res == BuildResult(frame[c].input, logs)
    IN /\ client_cache' = With(client_cache, key, [timestamp |-> now, data |-> res])
       /\ result' = [result EXCEPT ![c] = res]
       /\ pc' = [pc EXCEPT ![c] = "returned"]

\* Lines 372-397: the cache check; on a fresh entry the call returns it, else
\* it sends the request over the WebSocket and awaits the answer.
SearchStart(c, input) ==
    LET key == cache_key(input.search_query, input.limit)
        found == IF key \notin DOMAIN client_cache THEN "absent"
                 ELSE IF now - client_cache[key].timestamp < cache_ttl THEN "fresh"
                 ELSE "stale"
    IN /\ pc[c] = "idle"
       /\ frame' = [frame EXCEPT ![c] = [NoFrame EXCEPT !.input = input, !.lookup = found]]
       /\ IF CacheCheck(client_cache, key, now)
          THEN /\ result' = [result EXCEPT ![c] = client_cache[key].data]
               /\ pc' = [pc EXCEPT ![c] = "returned"]
          ELSE /\ pc' = [pc EXCEPT ![c] = "ws"]
               /\ UNCHANGED result
       /\ UNCHANGED <<client_cache, now, ticks, cacheVars, streamVars, zipVars, optVars, parseVars, toolVars, logVars, resolveVars, shareVars>>

\* _execute_websocket_query returns the logs it collected
WsReturns(c, logs) ==
    /\ pc[c] = "ws"
    /\ frame' = [frame EXCEPT ![c].ws = "ok"]
    /\ Finish(c, logs)
    /\ UNCHANGED <<now, ticks, cacheVars, streamVars, zipVars, optVars, parseVars, toolVars, logVars, resolveVars, shareVars>>

\* _execute_websocket_query raises: search_logs falls back to HTTP or lets the
\* exception through
WsRaises(c, exc) ==
    /\ pc[c] = "ws"
    /\ frame' = [frame EXCEPT ![c].ws = exc]
    /\ pc' = [pc EXCEPT ![c] = IF CaughtBySearchLogs(exc) THEN "http" ELSE "raised"]
    /\ UNCHANGED <<client_cache, result, now, ticks, cacheVars, streamVars, zipVars, optVars, parseVars, toolVars, logVars, resolveVars, shareVars>>

\* _execute_http_query returns
HttpReturns(c, outcome) ==
    /\ pc[c] = "http"
    /\ frame' = [frame EXCEPT ![c].ws = "failed", ![c].http = outcome.kind]
    /\ Finish(c, HttpLogs(outcome))
    /\ UNCHANGED <<now, ticks, cacheVars, streamVars, zipVars, optVars, parseVars, toolVars, logVars, resolveVars, shareVars>>

\* The caller has its answer; the call slot is free for the next call.
SearchEnd(c) ==
    /\ pc[c] \in {"returned", "raised"}
    /\ pc' = [pc EXCEPT ![c] = "idle"]
    /\ frame' = [frame EXCEPT ![c] = NoFrame]
    /\ result' = [result EXCEPT ![c] = NoResult]
    /\ UNCHANGED <<client_cache, now, ticks, cacheVars, streamVars, zipVars, optVars, parseVars, toolVars, logVars, resolveVars, shareVars>>

SearchTick ==
    /\ \E d \in SearchDelays : Tick(d)
    /\ UNCHANGED <<searchVars, cacheVars, streamVars, zipVars, optVars, parseVars, toolVars, logVars, resolveVars, shareVars>>

NoReturn == [raised |-> FALSE, logs |-> <<>>, control |-> <<>>]
NoHist == [exit |-> None, signal_seen |-> FALSE, read_after_signal |-> FALSE,
           latest_read |-> 0]

NoToolCall == [mode |-> None, name |-> None, arguments |-> None]

\* The server before its first tool call
NewServer ==
    /\ tool_pc = "idle"
    /\ tool_frame = NoToolCall
    /\ tool_log = <<>>

\* A schema: its "$ref" (<<>> when it has none) and its nested schemas
SchemaNode(ref, children) == [ref |-> ref, children |-> children]
NoDocument == [root |-> SchemaNode(<<>>, <<>>), components |-> <<>>]
NoResolveHist == [expanded |-> 0, placeholders |-> 0, ceiling |-> 0, deepest |-> 0,
                  again |-> FALSE]

\* No resolution has been started
NewResolver ==
    /\ res_fn = None
    /\ res_doc = NoDocument
    /\ res_stack = <<>>
    /\ res_hist = NoResolveHist

\* An arguments dict of a log tool; <<>> is a missing key, <<v>> the value v
NoObjects == [logs |-> <<>>, events |-> <<>>]
NoShareHist == [stored |-> <<>>, calls |-> <<>>]

\* A client whose cache holds no result for the query
NewSharing ==
    /\ objects = NoObjects
    /\ cache_entry = <<>>
    /\ share_hist = NoShareHist

NoArguments == [where |-> <<>>, _search |-> <<>>, conditions |-> <<>>, time_window |-> <<>>]

\* No log tool has been called yet
NewLogTools ==
    /\ log_args = NoArguments
    /\ log_calls = <<>>

NoParse == [done |-> FALSE]

NoCall == [fn |-> None]

\* The class attributes of TokenOptimizer when the module is loaded
NewOptimizer ==
    /\ _last_responses = <<>>
    /\ _last_response_id = <<>>
    /\ opt_time = 0
    /\ opt_call = NoCall
    /\ origin = <<>>

EmptyArchive == [valid |-> TRUE, files |-> <<>>]

\* An extraction about to start on archive zip
NewZip(zip) ==
    /\ zip_data = zip
    /\ zip_pc = "open"
    /\ zip_i = 0
    /\ zip_logs = <<>>

\* A stream about to be opened by function fn
NewStream(fn) ==
    /\ ws_fn = fn
    /\ ws_pc = "connect"
    /\ elapsed = 0
    /\ ws_logs = <<>>
    /\ control_messages = <<>>
    /\ ws_ret = NoReturn
    /\ ws_hist = NoHist

\* CroitLogSearchClient.__init__, no call in progress
NewClient ==
    /\ client_cache = <<>>
    /\ pc = [c \in Calls |-> "idle"]
    /\ frame = [c \in Calls |-> NoFrame]
    /\ result = [c \in Calls |-> NoResult]

InitSearch ==
    /\ InitClock
    /\ NewCache(MaxCacheSize)
    /\ NewClient
    /\ NewStream("client")
    /\ NewZip(EmptyArchive)
    /\ NewOptimizer
    /\ parse_call = NoParse
    /\ NewServer
    /\ NewSharing
    /\ NewResolver
    /\ NewLogTools

NextSearch ==
    \/ \E c \in Calls, input \in SearchInputs : SearchStart(c, input)
    \/ \E c \in Calls, logs \in LogLists : WsReturns(c, logs)
    \/ \E c \in Calls, exc \in WsExceptions : WsRaises(c, exc)
    \/ \E c \in Calls, outcome \in HttpOutcomes : HttpReturns(c, outcome)
    \/ \E c \in Calls : SearchEnd(c)
    \/ SearchTick

SpecSearch == InitSearch /\ [][NextSearch]_vars


(***************************************************************************)
(* The WebSocket read loops                                                *)
(***************************************************************************)
\* `while ... < 30` of _execute_websocket_query, `while ... < 45` of
\* _execute_croit_websocket, and the timeout of wait_for(websocket.recv())
ClientSessionTimeout == 30
DirectSessionTimeout == 45
MessageTimeout == 5

SessionTimeout(fn) == IF fn = "client" THEN ClientSessionTimeout ELSE DirectSessionTimeout

\* Seconds a message may take to arrive (less than MessageTimeout)
MessageDelays == {0, 4}

\* What the server may send: a log line, text that is no JSON, the empty
\* string and the control strings
Messages == {"log", "junk", "", "clear", "empty", "too_wide", "hits:json",
             "hits:null", "hits:junk", "error:text"}
ControlSignals == {"empty", "too_wide", "error:text"}

\* json.loads(response) succeeds
IsJson(m) == m = "log"

StreamRecord == [MESSAGE |-> "m1", level |-> "ERROR"]

\* The body of the client loop for one received message (lines 753-758)
ClientHandle(st, m) ==
    IF m = "" THEN st
    ELSE IF IsJson(m) THEN [st EXCEPT !.logs = Append(@, StreamRecord)]
    ELSE st

\* The body of the direct loop for one received message (lines 2225-2280)
DirectHandle(st, m) ==
    IF m = "" THEN st
    ELSE IF m = "clear" THEN [st EXCEPT !.control = Append(@, "clear")]
    ELSE IF m = "empty" THEN [st EXCEPT !.control = Append(@, "empty")]
    ELSE IF m = "too_wide" THEN [st EXCEPT !.control = Append(@, "too_wide")]
    ELSE IF m \in {"hits:json", "hits:null", "hits:junk"}
    THEN IF m = "hits:junk" THEN st ELSE [st EXCEPT !.control = Append(@, "hits")]
    ELSE IF m = "error:text" THEN [st EXCEPT !.control = Append(@, "error")]
    ELSE IF IsJson(m) THEN [st EXCEPT !.logs = Append(@, StreamRecord)]
    ELSE st

Handle(fn, st, m) == IF fn = "client" THEN ClientHandle(st, m) ELSE DirectHandle(st, m)

\* What the function returns after the loop (lines 777 and 2302)
StreamReturn(fn, st) ==
    IF fn = "client"
    THEN [raised |-> FALSE, logs |-> st.logs, control |-> <<>>]
    ELSE [raised |-> FALSE, logs |-> st.logs, control |-> st.control]

\* the while test holds
LoopContinues(fn, t) == t < SessionTimeout(fn)

\* websockets.connect and websocket.send succeed: the start time is taken
StreamConnect ==
    /\ ws_pc = "connect"
    /\ ws_pc' = "loop"
    /\ UNCHANGED <<ws_fn, elapsed, ws_logs, control_messages, ws_ret, ws_hist>>
    /\ UNCHANGED <<now, ticks, cacheVars, searchVars, zipVars, optVars, parseVars, toolVars, logVars, resolveVars, shareVars>>

\* connect or send raises; the function re-raises
StreamConnectFails ==
    /\ ws_pc = "connect"
    /\ ws_pc' = "raised"
    /\ ws_ret' = [NoReturn EXCEPT !.raised = TRUE]
    /\ UNCHANGED <<ws_fn, elapsed, ws_logs, control_messages, ws_hist>>
    /\ UNCHANGED <<now, ticks, cacheVars, searchVars, zipVars, optVars, parseVars, toolVars, logVars, resolveVars, shareVars>>

\* One pass of the loop in which recv delivers message m after d seconds
StreamReceive(m, d) ==
    LET st == Handle(ws_fn, [logs |-> ws_logs, control |-> control_messages], m)
    IN /\ ws_pc = "loop"
       /\ LoopContinues(ws_fn, elapsed)
       /\ Len(st.logs) <= MaxStreamLogs
       /\ Len(st.control) <= MaxControl
       /\ elapsed' = elapsed + d
       /\ ws_logs' = st.logs
       /\ control_messages' = st.control
       /\ ws_hist' = [ws_hist EXCEPT
                         !.signal_seen = @ \/ m \in ControlSignals,
                         !.read_after_signal = @ \/ ws_hist.signal_seen,
                         !.latest_read = elapsed]
       /\ UNCHANGED <<ws_fn, ws_pc, ws_ret>>
       /\ UNCHANGED <<now, ticks, cacheVars, searchVars, zipVars, optVars, parseVars, toolVars, logVars, resolveVars, shareVars>>

\* One pass in which no message arrives within MessageTimeout: break
StreamMessageTimeout ==
    /\ ws_pc = "loop"
    /\ LoopContinues(ws_fn, elapsed)
    /\ elapsed' = elapsed + MessageTimeout
    /\ ws_pc' = "done"
    /\ ws_ret' = StreamReturn(ws_fn, [logs |-> ws_logs, control |-> control_messages])
    /\ ws_hist' = [ws_hist EXCEPT !.exit = "message_timeout", !.latest_read = elapsed]
    /\ UNCHANGED <<ws_fn, ws_logs, control_messages>>
    /\ UNCHANGED <<now, ticks, cacheVars, searchVars, zipVars, optVars, parseVars, toolVars, logVars, resolveVars, shareVars>>

\* One pass in which recv raises ConnectionClosed after d seconds: break
StreamClosed(d) ==
    /\ ws_pc = "loop"
    /\ LoopContinues(ws_fn, elapsed)
    /\ elapsed' = elapsed + d
    /\ ws_pc' = "done"
    /\ ws_ret' = StreamReturn(ws_fn, [logs |-> ws_logs, control |-> control_messages])
    /\ ws_hist' = [ws_hist EXCEPT !.exit = "closed", !.latest_read = elapsed]
    /\ UNCHANGED <<ws_fn, ws_logs, control_messages>>
    /\ UNCHANGED <<now, ticks, cacheVars, searchVars, zipVars, optVars, parseVars, toolVars, logVars, resolveVars, shareVars>>

\* The while test fails: the loop ends
StreamSessionTimeout ==
    /\ ws_pc = "loop"
    /\ ~LoopContinues(ws_fn, elapsed)
    /\ ws_pc' = "done"
    /\ ws_ret' = StreamReturn(ws_fn, [logs |-> ws_logs, control |-> control_messages])
    /\ ws_hist' = [ws_hist EXCEPT !.exit = "session_timeout"]
    /\ UNCHANGED <<ws_fn, elapsed, ws_logs, control_messages>>
    /\ UNCHANGED <<now, ticks, cacheVars, searchVars, zipVars, optVars, parseVars, toolVars, logVars, resolveVars, shareVars>>

InitStream ==
    /\ InitClock
    /\ NewCache(MaxCacheSize)
    /\ NewClient
    /\ \E fn \in {"client", "direct"} : NewStream(fn)
    /\ NewZip(EmptyArchive)
    /\ NewOptimizer
    /\ parse_call = NoParse
    /\ NewServer
    /\ NewSharing
    /\ NewResolver
    /\ NewLogTools

NextStream ==
    \/ StreamConnect
    \/ StreamConnectFails
    \/ \E m \in Messages, d \in MessageDelays : StreamReceive(m, d)
    \/ StreamMessageTimeout
    \/ \E d \in MessageDelays : StreamClosed(d)
    \/ StreamSessionTimeout

SpecStream == InitStream /\ [][NextStream]_vars

(***************************************************************************)
(* _extract_logs_from_zip                                                  *)
(***************************************************************************)
\* File contents are sequences of tokens: the text of a JSON object, text
\* that is no JSON, a blank and a line break
Tokens == {"{}", "x", " ", "\n"}
Whitespace == {" ", "\n"}

RECURSIVE lstrip(_)
lstrip(s) ==
    IF s = <<>> THEN s
    ELSE IF Head(s) \in Whitespace THEN lstrip(Tail(s)) ELSE s

RECURSIVE rstrip(_)
rstrip(s) ==
    IF s = <<>> THEN s
    ELSE IF s[Len(s)] \in Whitespace THEN rstrip(SubSeq(s, 1, Len(s) - 1)) ELSE s

\* str.strip()
strip(s) == rstrip(lstrip(s))

\* str.split("\n"): the empty string splits into one empty line
RECURSIVE split(_)
split(s) ==
    IF \A i \in 1..Len(s) : s[i] # "\n" THEN <<s>>
    ELSE LET i == CHOOSE k \in 1..Len(s) :
                      s[k] = "\n" /\ \A j \in 1..(k - 1) : s[j] # "\n"
         IN <<SubSeq(s, 1, i - 1)>> \o split(SubSeq(s, i + 1, Len(s)))

\* lines = content.strip().split("\n")
Lines(content) == split(strip(content))

LogEntry == [MESSAGE |-> "m1"]

\* json.loads(line): one JSON value, surrounding whitespace allowed
json_loads(line) ==
    LET text == strip(line)
    IN IF text = <<"{}">> THEN [ok |-> TRUE, value |-> LogEntry, error |-> ""]
       ELSE IF text # <<>> /\ Head(text) = "{}"
       THEN [ok |-> FALSE, value |-> LogEntry, error |-> "Extra data"]
       ELSE [ok |-> FALSE, value |-> LogEntry, error |-> "Expecting value"]

RecordOf_dropsUnparsable(line, line_num) ==
    IF strip(line) # <<>> /\ json_loads(line).ok THEN <<json_loads(line).value>> ELSE <<>>

\* The body of the loop over the lines (lines 2034-2049): the records one
\* line adds to logs
RecordOf(line, line_num) ==
    IF strip(line) # <<>>
    THEN IF json_loads(line).ok
         THEN <<json_loads(line).value>>
         ELSE <<[raw_message |-> line, parse_error |-> json_loads(line).error,
                 line_number |-> line_num]>>
    ELSE <<>>

\* for line_num, line in enumerate(lines), from the n-th line on
RECURSIVE LineRecords(_, _)
LineRecords(lines, n) ==
    IF n > Len(lines) THEN <<>>
    ELSE RecordOf(lines[n], n - 1) \o LineRecords(lines, n + 1)

FileRecords(content) == LineRecords(Lines(content), 1)

\* The archives: a file is read and decoded, or opening or reading it raises
Contents == UNION {[1..n -> Tokens] : n \in 0..MaxContentLen}
ReadFailures == {"BadZipFile", "OSError", "UnicodeDecodeError"}
ZipFile(content) == [kind |-> "content", content |-> content]
FailingFile(exc) == [kind |-> exc, content |-> <<>>]
FirstFiles == {ZipFile(c) : c \in Contents} \cup {FailingFile(e) : e \in ReadFailures}
LaterFiles == {ZipFile(<<"{}">>), ZipFile(<<"x", "\n", "{}">>), FailingFile("OSError")}
Archives ==
    {[valid |-> FALSE, files |-> <<>>], EmptyArchive}
    \cup {[valid |-> TRUE, files |-> <<f>>] : f \in FirstFiles}
    \cup {[valid |-> TRUE, files |-> <<f, g>>] : f \in FirstFiles, g \in LaterFiles}

\* zipfile.ZipFile(io.BytesIO(zip_data)) succeeds
ZipOpen ==
    /\ zip_pc = "open"
    /\ zip_data.valid
    /\ zip_pc' = "files"
    /\ UNCHANGED <<zip_data, zip_i, zip_logs>>
    /\ UNCHANGED <<now, ticks, cacheVars, searchVars, streamVars, optVars, parseVars, toolVars, logVars, resolveVars, shareVars>>

\* zipfile.ZipFile raises BadZipFile: logged, logs is returned
ZipOpenFails ==
    /\ zip_pc = "open"
    /\ ~zip_data.valid
    /\ zip_pc' = "done"
    /\ UNCHANGED <<zip_data, zip_i, zip_logs>>
    /\ UNCHANGED <<now, ticks, cacheVars, searchVars, streamVars, optVars, parseVars, toolVars, logVars, resolveVars, shareVars>>

\* One pass of the loop over zf.namelist(): the file is read and its lines
\* are added
ZipReadFile ==
    /\ zip_pc = "files"
    /\ zip_i < Len(zip_data.files)
    /\ zip_data.files[zip_i + 1].kind = "content"
    /\ zip_logs' = zip_logs \o FileRecords(zip_data.files[zip_i + 1].content)
    /\ zip_i' = zip_i + 1
    /\ UNCHANGED <<zip_data, zip_pc>>
    /\ UNCHANGED <<now, ticks, cacheVars, searchVars, streamVars, optVars, parseVars, toolVars, logVars, resolveVars, shareVars>>

\* One pass in which zf.open or file.read raises BadZipFile or OSError, which
\* is logged and ends the extraction, or decode raises UnicodeDecodeError,
\* which no except clause catches
ZipReadFails ==
    /\ zip_pc = "files"
    /\ zip_i < Len(zip_data.files)
    /\ zip_data.files[zip_i + 1].kind \in ReadFailures
    /\ zip_pc' = IF zip_data.files[zip_i + 1].kind = "UnicodeDecodeError"
                 THEN "raised" ELSE "done"
    /\ UNCHANGED <<zip_data, zip_i, zip_logs>>
    /\ UNCHANGED <<now, ticks, cacheVars, searchVars, streamVars, optVars, parseVars, toolVars, logVars, resolveVars, shareVars>>

\* The loop over the files is over: return logs
ZipReturn ==
    /\ zip_pc = "files"
    /\ zip_i = Len(zip_data.files)
    /\ zip_pc' = "done"
    /\ UNCHANGED <<zip_data, zip_i, zip_logs>>
    /\ UNCHANGED <<now, ticks, cacheVars, searchVars, streamVars, optVars, parseVars, toolVars, logVars, resolveVars, shareVars>>

InitZip ==
    /\ InitClock
    /\ NewCache(MaxCacheSize)
    /\ NewClient
    /\ NewStream("client")
    /\ \E zip \in Archives : NewZip(zip)
    /\ NewOptimizer
    /\ parse_call = NoParse
    /\ NewServer
    /\ NewSharing
    /\ NewResolver
    /\ NewLogTools

NextZip ==
    \/ ZipOpen
    \/ ZipOpenFails
    \/ ZipReadFile
    \/ ZipReadFails
    \/ ZipReturn

SpecZip == InitZip /\ [][NextZip]_vars

(***************************************************************************)
(* TokenOptimizer: values, truncation, projection and filters              *)
(***************************************************************************)
\* A Python list is the record [list |-> items]; every other record is a
\* dict with its keys as fields
PyList(items) == [list |-> items]
IsList(v) == DOMAIN v = {"list"}

Min(a, b) == IF a <= b THEN a ELSE b
Max(a, b) == IF a >= b THEN a ELSE b

\* s[:m]
Slice(s, m) ==
    IF m >= 0 THEN SubSeq(s, 1, Min(m, Len(s)))
    ELSE SubSeq(s, 1, Max(0, Len(s) + m))

UrlLogs == <<"/", "l", "o", "g", "s">>
UrlServers == <<"/", "s", "e", "r", "v", "e", "r", "s">>
OptUrls == {UrlLogs, UrlServers, UrlStats, UrlPools}

\* The items of the responses: status cycles through Statuses in the
\* "mixed" lists, is missing in the "plain" lists, and is missing from every
\* second item but the first in the "partial" lists
Statuses == <<"ok", "error", "warning", "failed", "down", "critical">>
Patterns == {"ok", "mixed", "plain", "partial"}
Item(i, pattern) ==
    CASE pattern = "ok" -> [id |-> i, status |-> "ok"]
      [] pattern = "mixed" -> [id |-> i, status |-> Statuses[((i - 1) % Len(Statuses)) + 1]]
      [] pattern = "plain" -> [id |-> i, name |-> "n"]
      [] pattern = "partial" ->
            IF i % 2 = 1 THEN [id |-> i, status |-> "error"] ELSE [id |-> i, name |-> "n"]
ListOf(n, pattern) == PyList([i \in 1..n |-> Item(i, pattern)])
Wrapper(n, pattern) == [data |-> ListOf(n, pattern), total |-> n]
Responses ==
    {ListOf(n, p) : n \in 0..MaxItems, p \in Patterns}
    \cup {Wrapper(n, p) : n \in 0..MaxItems, p \in {"mixed"}}
    \cup {Item(1, "ok"), Item(1, "plain")}

\* the caps of truncate_response
LogCap == 100
StatsCap == 75
ResourceCap == 25

truncate_response_capAsCount(data, url, max_items) ==
    IF ~IsList(data) \/ Len(data.list) <= max_items THEN data
    ELSE [data |-> PyList(Slice(data.list, max_items)),
          _truncation_metadata |->
              [truncated |-> TRUE, original_count |-> max_items,
               returned_count |-> max_items,
               truncation_message |-> [from |-> max_items, to |-> max_items]]]

truncate_response(data, url, max_items) ==
    IF ~IsList(data) THEN data
    ELSE LET original_count == Len(data.list)
             u == StrLower(url)
             cap == IF Contains(u, <<"/", "l", "o", "g">>)
                       \/ Contains(u, <<"/", "a", "u", "d", "i", "t">>)
                    THEN Min(LogCap, original_count)
                    ELSE IF Contains(u, <<"/", "s", "t", "a", "t", "s">>)
                    THEN Min(StatsCap, original_count)
                    ELSE IF \/ Contains(u, <<"/", "s", "e", "r", "v", "i", "c", "e", "s">>)
                            \/ Contains(u, <<"/", "s", "e", "r", "v", "e", "r", "s">>)
                            \/ Contains(u, <<"/", "o", "s", "d", "s">>)
                    THEN Min(ResourceCap, original_count)
                    ELSE max_items
         IN IF original_count <= max_items THEN data
            ELSE [data |-> PyList(Slice(data.list, cap)),
                  _truncation_metadata |->
                      [truncated |-> TRUE, original_count |-> original_count,
                       returned_count |-> cap,
                       truncation_message |-> [from |-> original_count, to |-> cap]]]

\* {field: obj.get(field) for field in fields if field in obj}
project_object(obj, fields) ==
    [f \in ({fields[i] : i \in 1..Len(fields)} \cap DOMAIN obj) |-> obj[f]]

project_fields(data, fields) ==
    IF fields = <<>> THEN data
    ELSE IF IsList(data)
    THEN PyList([i \in 1..Len(data.list) |-> project_object(data.list[i], fields)])
    ELSE IF "data" \in DOMAIN data /\ IsList(data.data)
    THEN [k \in DOMAIN data \cup {"_field_projection"} |->
             IF k = "data"
             THEN PyList([i \in 1..Len(data.data.list) |->
                              project_object(data.data.list[i], fields)])
             ELSE IF k = "_field_projection" THEN fields
             ELSE data[k]]
    ELSE project_object(data, fields)

\* Filter sets are dicts in insertion order: a sequence of [key, value]
\* pairs.  A value is [eq |-> text], [in |-> set of texts] (a list of allowed
\* values) or [cmp |-> operator, num |-> number] (the text ">1"); under the
\* key "_has" the value is [has |-> set of field names]
NumericFields == {"id"}

\* float(value) <op> float(comparison[k:]); a value that is no number makes
\* float raise, which yields False
_numeric_comparison(field, value, comparison) ==
    IF field \notin NumericFields THEN FALSE
    ELSE CASE comparison.cmp = ">=" -> value >= comparison.num
           [] comparison.cmp = "<=" -> value <= comparison.num
           [] comparison.cmp = "!=" -> value # comparison.num
           [] comparison.cmp = ">" -> value > comparison.num
           [] comparison.cmp = "<" -> value < comparison.num
           [] comparison.cmp = "=" -> value = comparison.num

\* One pass of the loop over filters.items()
MatchesFilter(item, key, value) ==
    IF key = "_has" THEN value.has \subseteq DOMAIN item
    ELSE IF key \notin DOMAIN item THEN FALSE
    ELSE IF "cmp" \in DOMAIN value THEN _numeric_comparison(key, item[key], value)
    ELSE IF "in" \in DOMAIN value THEN item[key] \in value.in
    ELSE item[key] = value.eq

_item_matches_filters(item, filters) ==
    \A i \in 1..Len(filters) : MatchesFilter(item, filters[i].key, filters[i].value)

\* `not data`: an empty list or an empty dict
Falsy(data) == IF IsList(data) THEN data.list = <<>> ELSE DOMAIN data = {}

apply_filters_skipsFirst(data, filters) ==
    IF filters = <<>> \/ Falsy(data) THEN data
    ELSE LET items == IF IsList(data) THEN data.list ELSE <<data>>
             filtered == SelectSeq(items, LAMBDA item : _item_matches_filters(item, filters))
         IN IF ~IsList(data) /\ filtered # <<>> THEN filtered[1]
            ELSE PyList(IF filtered = <<>> THEN filtered ELSE Tail(filtered))

apply_filters(data, filters) ==
    IF filters = <<>> \/ Falsy(data) THEN data
    ELSE LET is_single == ~IsList(data)
             items == IF is_single THEN <<data>> ELSE data.list
             filtered == SelectSeq(items, LAMBDA item : _item_matches_filters(item, filters))
         IN IF is_single /\ filtered # <<>> THEN filtered[1] ELSE PyList(filtered)

FilterSets ==
    { <<>>,
      <<[key |-> "status", value |-> [eq |-> "error"]]>>,
      <<[key |-> "status", value |-> [in |-> {"error", "warning"}]]>>,
      <<[key |-> "_has", value |-> [has |-> {"name"}]]>>,
      <<[key |-> "id", value |-> [cmp |-> ">", num |-> 1]]>>,
      <<[key |-> "status", value |-> [cmp |-> "<=", num |-> 3]]>>,
      <<[key |-> "id", value |-> [cmp |-> "<=", num |-> 3]],
        [key |-> "status", value |-> [eq |-> "ok"]]>> }

(***************************************************************************)
(* TokenOptimizer: smart summaries and the store of full responses         *)
(***************************************************************************)
\* The thresholds of create_smart_summary
SmallDataset == 5
CriticalShown == 5
ErrorSamples == 3
SampleItems == 3
FieldScan == 10

CriticalStatuses == {"error", "failed", "down", "critical"}
ErrorStatuses == {"error", "failed", "down"}

\* hashlib.md5(f"{url}:{time.time()}").hexdigest()[:8], as the text digested;
\* successive readings of time.time() differ
ResponseId(url, t) == [url |-> url, time |-> t]

Merge(r1, r2) ==
    [k \in DOMAIN r1 \cup DOMAIN r2 |-> IF k \in DOMAIN r2 THEN r2[k] ELSE r1[k]]

\* item.get("status", "unknown")
StatusOf(item) == IF "status" \in DOMAIN item THEN item.status ELSE "unknown"

StatusCounts_presence(items) ==
    [st \in {StatusOf(items[i]) : i \in 1..Len(items)} |-> 1]

\* status_counts after the loop over data
StatusCounts(items) ==
    [st \in {StatusOf(items[i]) : i \in 1..Len(items)} |->
        Cardinality({i \in 1..Len(items) : StatusOf(items[i]) = st})]

\* The summary of a list of more than SmallDataset dicts (lines 899-962)
SummaryOfList(items, response_id) ==
    LET total_count == Len(items)
        critical_statuses == SelectSeq(items, LAMBDA item : StatusOf(item) \in CriticalStatuses)
        error_items == SelectSeq(items, LAMBDA item :
                           "status" \in DOMAIN item /\ item.status \in ErrorStatuses)
        head == [_summary |-> [found |-> total_count], _response_id |-> response_id,
                 total_count |-> total_count]
        status == IF "status" \in DOMAIN items[1]
                  THEN Merge([by_status |-> StatusCounts(items)],
                             IF critical_statuses # <<>>
                             THEN [critical_items |-> Slice(critical_statuses, CriticalShown),
                                   critical_count |-> Len(critical_statuses)]
                             ELSE <<>>)
                  ELSE <<>>
        errors == IF error_items # <<>>
                  THEN [errors_found |-> Len(error_items),
                        error_samples |-> Slice(error_items, ErrorSamples)]
                  ELSE <<>>
        rest == [sample_items |-> Slice(items, SampleItems),
                 available_fields |->
                     UNION {DOMAIN items[i] : i \in 1..Min(FieldScan, total_count)},
                 _hint |-> [total |-> total_count, response_id |-> response_id]]
    IN Merge(Merge(Merge(head, status), errors), rest)

OptState(responses, last_id, t, ret) ==
    [responses |-> responses, last_id |-> last_id, time |-> t, ret |-> ret]

\* create_smart_summary(data, url) without a response_id argument
create_smart_summary(st, data, url) ==
    LET response_id == ResponseId(url, st.time)
        responses == With(st.responses, response_id, data)
        ret == IF ~IsList(data)
               THEN [_summary |-> IF DOMAIN data \cap {"error", "errors", "failed", "status"} # {}
                                  THEN "Single object response (error detected)"
                                  ELSE "Single object response",
                     _response_id |-> response_id, data |-> data,
                     _hint |-> "This is the complete response"]
               ELSE IF Len(data.list) <= SmallDataset
               THEN [_summary |-> [small |-> Len(data.list)], _response_id |-> response_id,
                     items |-> data, _hint |-> "Complete data shown"]
               ELSE SummaryOfList(data.list, response_id)
    IN OptState(responses, <<response_id>>, st.time + 1, ret)

NoStoredResponse ==
    [error |-> "No stored response found",
     hint |-> "Make an API call first, then use the response_id from the summary"]

\* response_id and limit are <<>> for None
search_stored_response(st, response_id, filters, limit) ==
    LET rid == IF response_id = <<>> THEN st.last_id ELSE response_id
    IN IF rid = <<>> \/ rid[1] \notin DOMAIN st.responses THEN NoStoredResponse
       ELSE LET stored == st.responses[rid[1]]
                data == IF filters # <<>> THEN apply_filters(stored, filters) ELSE stored
                cut == IF limit # <<>> /\ limit[1] # 0 /\ IsList(data)
                       THEN PyList(Slice(data.list, limit[1])) ELSE data
            IN [response_id |-> rid[1],
                matched_count |-> IF IsList(cut) THEN Len(cut.list) ELSE 1,
                results |-> cut]

(***************************************************************************)
(* optimize_api_response and the optimizer calls                           *)
(***************************************************************************)
\* The size classes of optimize_api_response
SmallResponse == 5
MediumResponse == 50
TruncateMaxItems == 25
ProjectedSummaryOver == 100

\* item_count: <<>> for None
ItemCount(response_data) ==
    IF IsList(response_data) THEN <<Len(response_data.list)>>
    ELSE IF "data" \in DOMAIN response_data /\ IsList(response_data.data)
    THEN <<Len(response_data.data.list)>>
    ELSE <<>>

optimize_api_response_alwaysSummarizes(st, url, response_data, params, requested_fields) ==
    IF params.no_optimize THEN OptState(st.responses, st.last_id, st.time, response_data)
    ELSE IF requested_fields # <<>>
    THEN OptState(st.responses, st.last_id, st.time,
                  project_fields(response_data, requested_fields))
    ELSE create_smart_summary(st, response_data, url)

\* params is [no_optimize |-> flag]; requested_fields is <<>> for None
optimize_api_response(st, url, response_data, params, requested_fields) ==
    LET unchanged(ret) == OptState(st.responses, st.last_id, st.time, ret)
        item_count == ItemCount(response_data)
    IN IF params.no_optimize THEN unchanged(response_data)
       ELSE IF requested_fields # <<>>
       THEN LET projected == project_fields(response_data, requested_fields)
            IN IF IsList(projected) /\ Len(projected.list) > ProjectedSummaryOver
               THEN create_smart_summary(st, projected, url)
               ELSE unchanged(projected)
       ELSE IF item_count # <<>> /\ item_count[1] <= SmallResponse
       THEN unchanged(response_data)
       ELSE IF item_count # <<>> /\ SmallResponse < item_count[1]
               /\ item_count[1] <= MediumResponse
       THEN unchanged(truncate_response(response_data, url, TruncateMaxItems))
       ELSE IF item_count # <<>> /\ item_count[1] > MediumResponse
       THEN create_smart_summary(st, response_data, url)
       ELSE unchanged(response_data)

OptimizerState == OptState(_last_responses, _last_response_id, opt_time, <<>>)

FieldSelections == {<<>>, <<"id">>, <<"status", "zone">>}
Params == {[no_optimize |-> FALSE], [no_optimize |-> TRUE]}
MaxItemsArgs == {-1, 0, 10, 25, 50}

\* The call record kept as history
OptCall(fn, args, ret) == [fn |-> fn, args |-> args, ret |-> ret]

\* optimize_api_response(url, "GET", response_data, params, requested_fields)
Optimize(url, response_data, params, requested_fields) ==
    LET st == optimize_api_response(OptimizerState, url, response_data, params,
                                    requested_fields)
    IN /\ _last_responses' = st.responses
       /\ _last_response_id' = st.last_id
       /\ opt_time' = st.time
       /\ opt_call' = OptCall("optimize_api_response",
                              [url |-> url, data |-> response_data, params |-> params,
                               fields |-> requested_fields], st.ret)
       /\ origin' = IF st.time # opt_time
                    THEN With(origin, ResponseId(url, opt_time), response_data)
                    ELSE origin
       /\ UNCHANGED <<now, ticks, cacheVars, searchVars, streamVars, zipVars, parseVars, toolVars, logVars, resolveVars, shareVars>>

\* TokenOptimizer.truncate_response(data, url, max_items)
Truncate(data, url, max_items) ==
    /\ opt_call' = OptCall("truncate_response",
                           [url |-> url, data |-> data, max_items |-> max_items],
                           truncate_response(data, url, max_items))
    /\ UNCHANGED <<_last_responses, _last_response_id, opt_time, origin>>
    /\ UNCHANGED <<now, ticks, cacheVars, searchVars, streamVars, zipVars, parseVars, toolVars, logVars, resolveVars, shareVars>>

\* TokenOptimizer.apply_filters(data, filters)
Filter(data, filters) ==
    /\ opt_call' = OptCall("apply_filters", [data |-> data, filters |-> filters],
                           apply_filters(data, filters))
    /\ UNCHANGED <<_last_responses, _last_response_id, opt_time, origin>>
    /\ UNCHANGED <<now, ticks, cacheVars, searchVars, streamVars, zipVars, parseVars, toolVars, logVars, resolveVars, shareVars>>

\* TokenOptimizer.create_smart_summary(data, url)
Summarize(data, url) ==
    LET st == create_smart_summary(OptimizerState, data, url)
    IN /\ _last_responses' = st.responses
       /\ _last_response_id' = st.last_id
       /\ opt_time' = st.time
       /\ opt_call' = OptCall("create_smart_summary", [url |-> url, data |-> data], st.ret)
       /\ origin' = With(origin, ResponseId(url, opt_time), data)
       /\ UNCHANGED <<now, ticks, cacheVars, searchVars, streamVars, zipVars, parseVars, toolVars, logVars, resolveVars, shareVars>>

\* TokenOptimizer.search_stored_response(response_id, filters, limit)
SearchStored(response_id, filters, limit) ==
    /\ opt_call' = OptCall("search_stored_response",
                           [response_id |-> response_id, filters |-> filters,
                            limit |-> limit],
                           search_stored_response(OptimizerState, response_id, filters, limit))
    /\ UNCHANGED <<_last_responses, _last_response_id, opt_time, origin>>
    /\ UNCHANGED <<now, ticks, cacheVars, searchVars, streamVars, zipVars, parseVars, toolVars, logVars, resolveVars, shareVars>>

\* One optimizer call on a freshly loaded module, with any arguments
OptimizeAny ==
    /\ opt_call = NoCall
    /\ \E url \in OptUrls, response_data \in Responses, params \in Params,
          requested_fields \in FieldSelections :
          Optimize(url, response_data, params, requested_fields)

TruncateAny ==
    /\ opt_call = NoCall
    /\ \E data \in Responses, url \in OptUrls, max_items \in MaxItemsArgs :
          Truncate(data, url, max_items)

FilterAny ==
    /\ opt_call = NoCall
    /\ \E data \in Responses, filters \in FilterSets : Filter(data, filters)

SummarizeAny ==
    /\ opt_call = NoCall
    /\ \E data \in Responses, url \in OptUrls : Summarize(data, url)

InitOptimize ==
    /\ InitClock
    /\ NewCache(MaxCacheSize)
    /\ NewClient
    /\ NewStream("client")
    /\ NewZip(EmptyArchive)
    /\ NewOptimizer
    /\ parse_call = NoParse
    /\ NewServer
    /\ NewSharing
    /\ NewResolver
    /\ NewLogTools

NextOptimize ==
    \/ OptimizeAny
    \/ TruncateAny
    \/ FilterAny
    \/ SummarizeAny

SpecOptimize == InitOptimize /\ [][NextOptimize]_vars

\* A session of requests and drill-downs: the responses the backend gives
DrillRequests ==
    { [url |-> UrlServers, data |-> ListOf(MediumResponse + 1, "mixed"), fields |-> <<>>],
      [url |-> UrlLogs, data |-> ListOf(MediumResponse + 1, "partial"), fields |-> <<>>],
      [url |-> UrlServers, data |-> ListOf(ProjectedSummaryOver + 1, "mixed"),
       fields |-> <<"id">>],
      [url |-> UrlPools, data |-> ListOf(SmallResponse + 1, "ok"), fields |-> <<>>] }
DrillFilters ==
    { <<>>,
      <<[key |-> "status", value |-> [eq |-> "error"]]>>,
      <<[key |-> "id", value |-> [cmp |-> "<=", num |-> 3]]>> }
DrillLimits == {<<>>, <<0>>, <<2>>}
UnknownId == ResponseId(UrlStatus, 0)

DrillRequest ==
    /\ opt_time < MaxSummaries
    /\ \E r \in DrillRequests :
          Optimize(r.url, r.data, [no_optimize |-> FALSE], r.fields)

DrillSearch ==
    \E response_id \in {<<>>, <<UnknownId>>} \cup {<<r>> : r \in DOMAIN _last_responses},
       filters \in DrillFilters, limit \in DrillLimits :
       SearchStored(response_id, filters, limit)

NextDrill ==
    \/ DrillRequest
    \/ DrillSearch

SpecDrill == InitOptimize /\ [][NextDrill]_vars

(***************************************************************************)
(* LogSearchIntentParser.parse                                             *)
(***************************************************************************)
\* A search text is a sequence of words separated by single blanks
Vocabulary ==
    {<<"e", "v", "e", "r", "y", "t", "h", "i", "n", "g">>,
     <<"A", "l", "l">>,
     <<"l", "e", "v", "e", "l", "s">>,
     <<"o", "s", "d">>,
     <<"d", "o", "w", "n">>,
     <<"s", "l", "o", "w">>,
     <<"r", "e", "q", "u", "e", "s", "t">>,
     <<"k", "e", "r", "n", "e", "l">>,
     <<"e", "r", "r", "o", "r">>,
     <<"i", "n", "f", "o">>,
     <<"p", "o", "o", "l">>,
     <<"f", "u", "l", "l">>,
     <<"o", "s", "d", ".", "1">>}
Words == UNION {[1..n -> Vocabulary] : n \in 1..MaxWords}

RECURSIVE Join(_)
Join(ws) ==
    IF Len(ws) = 1 THEN ws[1] ELSE ws[1] \o <<" ">> \o Join(Tail(ws))

\* re.search of a literal, IGNORECASE, on lower-case text: the offsets at
\* which the literal starts, and those just after its end
StartsOf(s, lit) ==
    {i \in 0..(Len(s) - Len(lit)) : \A j \in 1..Len(lit) : s[i + j] = lit[j]}
EndsOf(s, lit) == {i + Len(lit) : i \in StartsOf(s, lit)}

\* re.search(r"(a1|a2|...).*?(b1|b2|...)", s)
SearchThen(s, firsts, seconds) ==
    \E a \in firsts, b \in seconds :
        \E e \in EndsOf(s, a), i \in StartsOf(s, b) : e <= i

\* re.search(r"(a1|a2|...)\s+(b1|b2|...)", s)
SearchSpaced(s, firsts, seconds) ==
    \E a \in firsts, b \in seconds :
        \E e \in EndsOf(s, a), i \in StartsOf(s, b) :
            e < i /\ \A k \in (e + 1)..i : s[k] = " "

\* re.search(r"(a1|a2|...)", s)
SearchAny(s, alternatives) == \E a \in alternatives : Contains(s, a)

\* PATTERNS: the regex of each pattern and its levels
PatternNames == {"osd_issues", "slow_requests", "auth_failures", "network_problems",
                 "pool_issues"}
PatternMatches(name, s) ==
    CASE name = "osd_issues" ->
            SearchThen(s, {<<"o", "s", "d">>, <<"o", "b", "j", "e", "c", "t", "s", "t", "o", "r", "a", "g", "e">>, <<"o", "b", "j", "e", "c", "t", " ", "s", "t", "o", "r", "a", "g", "e">>},
                       {<<"f", "a", "i", "l">>, <<"d", "o", "w", "n">>, <<"c", "r", "a", "s", "h">>, <<"s", "l", "o", "w">>, <<"e", "r", "r", "o", "r">>, <<"f", "l", "a", "p">>, <<"t", "i", "m", "e", "o", "u", "t">>})
      [] name = "slow_requests" ->
            SearchSpaced(s, {<<"s", "l", "o", "w">>, <<"b", "l", "o", "c", "k", "e", "d">>, <<"s", "t", "u", "c", "k">>, <<"d", "e", "l", "a", "y", "e", "d">>},
                         {<<"r", "e", "q", "u", "e", "s", "t">>, <<"o", "p", "e", "r", "a", "t", "i", "o", "n">>, <<"o", "p">>, <<"q", "u", "e", "r", "y">>, <<"i", "o">>})
      [] name = "auth_failures" ->
            SearchThen(s, {<<"a", "u", "t", "h">>, <<"a", "u", "t", "h", "e", "n", "t", "i", "c", "a", "t", "i", "o", "n">>, <<"l", "o", "g", "i", "n">>, <<"p", "e", "r", "m", "i", "s", "s", "i", "o", "n">>},
                       {<<"f", "a", "i", "l">>, <<"d", "e", "n", "i", "e", "d">>, <<"e", "r", "r", "o", "r">>})
      [] name = "network_problems" ->
            SearchAny(s, {<<"n", "e", "t", "w", "o", "r", "k">>, <<"c", "o", "n", "n", "e", "c", "t", "i", "o", "n">>, <<"t", "i", "m", "e", "o", "u", "t">>, <<"u", "n", "r", "e", "a", "c", "h", "a", "b", "l", "e">>, <<"h", "e", "a", "r", "t", "b", "e", "a", "t">>, <<"m", "s", "g", "r">>})
      [] name = "pool_issues" ->
            SearchThen(s, {<<"p", "o", "o", "l">>}, {<<"f", "u", "l", "l">>, <<"c", "r", "e", "a", "t", "e">>, <<"d", "e", "l", "e", "t", "e">>, <<"e", "r", "r", "o", "r">>})
PatternLevels(name) ==
    IF name = "osd_issues" THEN {"ERROR", "WARN", "FATAL"} ELSE {"WARN", "ERROR"}
PatternServices(name) ==
    CASE name = "osd_issues" -> {"ceph-osd", "ceph-mon"}
      [] name = "slow_requests" -> {"ceph-osd", "ceph-mon", "ceph-mds"}
      [] name = "auth_failures" -> {"ceph-mon", "ceph-mgr"}
      [] name = "network_problems" -> {"ceph-mon", "ceph-osd", "ceph-mds", "ceph-mgr"}
      [] name = "pool_issues" -> {"ceph-mon", "ceph-mgr"}
PatternKeywords(name) ==
    CASE name = "osd_issues" -> {"OSD", "failed", "down", "crashed", "flapping"}
      [] name = "slow_requests" -> {"slow request", "blocked", "timeout", "stuck"}
      [] name = "auth_failures" -> {"authentication", "failed", "denied", "unauthorized"}
      [] name = "network_problems" ->
            {"connection", "timeout", "network", "unreachable", "heartbeat"}
      [] name = "pool_issues" -> {"pool", "full", "quota", "space"}
\* "info" in " ".join(keywords).lower(): no keyword of PATTERNS holds "info"
InfoInKeywords(keywords) == FALSE

\* CephServiceTranslator: a word like osd.1 is a service reference
ServicePrefixes == {"osd", "mon", "mgr", "mds", "rgw"}
DigitChars == {"0", "1", "2", "3", "4", "5", "6", "7", "8", "9"}
PrefixText(name) ==
    CASE name = "osd" -> <<"o", "s", "d">> [] name = "mon" -> <<"m", "o", "n">> [] name = "mgr" -> <<"m", "g", "r">>
      [] name = "mds" -> <<"m", "d", "s">> [] name = "rgw" -> <<"r", "g", "w">>
UnitText(name) ==
    CASE name = "osd" -> <<"c", "e", "p", "h", "-", "o", "s", "d">>
      [] name = "mon" -> <<"c", "e", "p", "h", "-", "m", "o", "n">>
      [] name = "mgr" -> <<"c", "e", "p", "h", "-", "m", "g", "r">>
      [] name = "mds" -> <<"c", "e", "p", "h", "-", "m", "d", "s">>
      [] name = "rgw" -> <<"c", "e", "p", "h", "-", "r", "a", "d", "o", "s", "g", "w">>
IsServiceOf(word, name) ==
    /\ Len(word) > 4
    /\ StrLower(SubSeq(word, 1, 3)) = PrefixText(name)
    /\ word[4] = "."
detect_ceph_services_in_text(ws) ==
    SelectSeq(ws, LAMBDA word : \E name \in ServicePrefixes : IsServiceOf(word, name))
translate_service_name(word) ==
    IF \E name \in ServicePrefixes :
           /\ SubSeq(word, 1, 4) = PrefixText(name) \o <<".">>
           /\ Len(word) > 4
           /\ name = "osd" => \A k \in 5..Len(word) : word[k] \in DigitChars
    THEN LET name == CHOOSE n \in ServicePrefixes : SubSeq(word, 1, 3) = PrefixText(n)
         IN UnitText(name) \o <<"@">> \o SubSeq(word, 5, Len(word)) \o <<".", "s", "e", "r", "v", "i", "c", "e">>
    ELSE word

ExplicitAll == {<<"a", "l", "l">>, <<"e", "v", "e", "r", "y", "t", "h", "i", "n", "g">>}
ProblemIndicators ==
    {<<"e", "r", "r", "o", "r">>, <<"f", "a", "i", "l">>, <<"p", "r", "o", "b", "l", "e", "m">>, <<"i", "s", "s", "u", "e">>, <<"c", "r", "a", "s", "h">>, <<"w", "r", "o", "n", "g">>, <<"s", "l", "o", "w">>, <<"t", "i", "m", "e", "o", "u", "t">>, <<"s", "t", "u", "c", "k">>}
PerformanceIndicators ==
    {<<"p", "e", "r", "f", "o", "r", "m", "a", "n", "c", "e">>, <<"s", "l", "o", "w">>, <<"f", "a", "s", "t">>, <<"l", "a", "t", "e", "n", "c", "y">>, <<"t", "h", "r", "o", "u", "g", "h", "p", "u", "t">>, <<"b", "a", "n", "d", "w", "i", "d", "t", "h">>}

\* parse(search_intent), the text given as its words; time_range is left out
parse(ws) ==
    LET ceph_services == detect_ceph_services_in_text(ws)
        replaced == [k \in 1..Len(ws) |->
                        IF \E n \in 1..Len(ceph_services) : ceph_services[n] = ws[k]
                        THEN StrLower(translate_service_name(ws[k]))
                        ELSE StrLower(ws[k])]
        intent == Join(replaced)
        detected_patterns == {name \in PatternNames : PatternMatches(name, intent)}
        services == {translate_service_name(ceph_services[n]) : n \in 1..Len(ceph_services)}
        pattern_services == UNION {PatternServices(name) : name \in detected_patterns}
        pattern_levels == UNION {PatternLevels(name) : name \in detected_patterns}
        keywords == UNION {PatternKeywords(name) : name \in detected_patterns}
        has(word) == Contains(intent, word)
        explicit ==
            IF has(<<"a", "l", "l", " ", "l", "e", "v", "e", "l">>) \/ has(<<"a", "l", "l", " ", "l", "o", "g">>) \/ has(<<"e", "v", "e", "r", "y", "t", "h", "i", "n", "g">>) THEN {}
            ELSE IF has(<<"c", "r", "i", "t", "i", "c", "a", "l">>) \/ has(<<"e", "m", "e", "r", "g", "e", "n", "c", "y">>)
            THEN pattern_levels \cup {"EMERGENCY", "ALERT", "CRITICAL"}
            ELSE IF has(<<"e", "r", "r", "o", "r">>) /\ ~has(<<"n", "o", " ", "e", "r", "r", "o", "r">>)
            THEN pattern_levels \cup {"ERROR", "CRITICAL", "ALERT", "EMERGENCY"}
            ELSE IF has(<<"w", "a", "r", "n", "i", "n", "g">>) \/ has(<<"w", "a", "r", "n">>)
            THEN pattern_levels \cup {"WARNING", "ERROR", "CRITICAL", "ALERT", "EMERGENCY"}
            ELSE IF has(<<"i", "n", "f", "o">>) /\ ~InfoInKeywords(keywords)
            THEN pattern_levels
                 \cup {"INFO", "WARNING", "ERROR", "CRITICAL", "ALERT", "EMERGENCY"}
            ELSE IF has(<<"d", "e", "b", "u", "g">>)
            THEN pattern_levels
                 \cup {"DEBUG", "INFO", "WARNING", "ERROR", "CRITICAL", "ALERT", "EMERGENCY"}
            ELSE IF has(<<"t", "r", "a", "c", "e">>) THEN {}
            ELSE pattern_levels
        kernel_mentioned == \E word \in {<<"k", "e", "r", "n", "e", "l">>, <<"h", "a", "r", "d", "w", "a", "r", "e">>, <<"d", "r", "i", "v", "e", "r">>, <<"s", "y", "s", "t", "e", "m">>} : has(word)
        kernel ==
            IF kernel_mentioned /\ explicit = {}
               /\ ~\E word \in {<<"a", "l", "l">>, <<"e", "v", "e", "r", "y", "t", "h", "i", "n", "g">>, <<"d", "e", "b", "u", "g">>, <<"t", "r", "a", "c", "e">>, <<"i", "n", "f", "o">>} : has(word)
            THEN {"WARNING", "ERROR", "CRITICAL", "ALERT", "EMERGENCY"}
            ELSE explicit
        defaults ==
            IF kernel = {} /\ ~\E word \in ProblemIndicators \cup ExplicitAll : has(word)
            THEN IF kernel_mentioned
                 THEN {"NOTICE", "WARNING", "ERROR", "CRITICAL", "ALERT", "EMERGENCY"}
                 ELSE {}
            ELSE kernel
        levels ==
            IF (\E word \in PerformanceIndicators : has(word))
               /\ (defaults = {} \/ defaults = {"ERROR", "WARNING"})
            THEN defaults \cup {"INFO", "NOTICE", "WARNING", "ERROR"}
            ELSE defaults
    IN [type |-> IF has(<<"m", "o", "n", "i", "t", "o", "r">>) \/ has(<<"s", "t", "r", "e", "a", "m">>) THEN "tail" ELSE "query",
        services |-> [ceph |-> services, units |-> pattern_services],
        levels |-> levels,
        keywords |-> keywords]

\* LogSearchIntentParser().parse(search_intent), one call per parser
Parse(ws) ==
    /\ parse_call = NoParse
    /\ parse_call' = [done |-> TRUE, text |-> ws, intent |-> parse(ws)]
    /\ UNCHANGED <<now, ticks, cacheVars, searchVars, streamVars, zipVars, optVars, toolVars, logVars, resolveVars, shareVars>>

InitParse ==
    /\ InitClock
    /\ NewCache(MaxCacheSize)
    /\ NewClient
    /\ NewStream("client")
    /\ NewZip(EmptyArchive)
    /\ NewOptimizer
    /\ parse_call = NoParse
    /\ NewServer
    /\ NewSharing
    /\ NewResolver
    /\ NewLogTools

NextParse == \E ws \in Words : Parse(ws)

SpecParse == InitParse /\ [][NextParse]_vars

(***************************************************************************)
(* call_tool_handler                                                       *)
(***************************************************************************)
Modes == {"hybrid", "categories_only", "base_only"}
ToolNames == {"croit_log_search", "croit_log_check", "list_endpoints", "quick_find",
              "call_endpoint", "get_schema", "manage_pools", "list_api_endpoints",
              "get_reference_schema", "call_api_endpoint", "delete_everything"}
\* arguments: complete, or lacking a key the handler indexes
ToolArguments == {"complete", "incomplete"}

\* name.startswith("manage_")
IsCategoryTool(name) == name = "manage_pools"

\* Which branch of the mode's handler takes the call; enable_log_tools is on
handle_hybrid_tool(name) ==
    IF name = "croit_log_search" \/ name = "croit_log_check" THEN "log"
    ELSE IF name = "list_endpoints" THEN "local"
    ELSE IF name = "quick_find" THEN "local"
    ELSE IF name = "call_endpoint" THEN "api"
    ELSE IF name = "get_schema" THEN "schema"
    ELSE IF IsCategoryTool(name) THEN "api"
    ELSE "unknown"

handle_category_tool(name) ==
    IF name = "croit_log_search" \/ name = "croit_log_check" THEN "log"
    ELSE IF IsCategoryTool(name) THEN "api"
    ELSE "unknown"

handle_api_call_tool(name) ==
    IF name = "croit_log_search" \/ name = "croit_log_check" THEN "log"
    ELSE IF name = "get_reference_schema" THEN "schema"
    ELSE IF name = "list_api_endpoints" THEN "local"
    ELSE IF name # "call_api_endpoint" THEN "unknown"
    ELSE "api"

Branch(mode, name) ==
    IF mode = "hybrid" THEN handle_hybrid_tool(name)
    ELSE IF mode = "categories_only" THEN handle_category_tool(name)
    ELSE handle_api_call_tool(name)

\* The branch reads its arguments by index (arguments["reference"],
\* arguments["reference_path"], arguments["endpoint"]) and not by .get
IndexesArguments(mode, name) ==
    \/ Branch(mode, name) = "schema"
    \/ mode = "base_only" /\ Branch(mode, name) = "api"

\* HTTP statuses of the backend
HttpStatuses == {200, 404, 500}
RequestErrors == {"ClientError", "TimeoutError"}

\* schema_response of _make_api_call for an answer with the given status
SchemaResponse(status) ==
    IF status >= 200 /\ status < 300
    THEN [code |-> status, result |-> "data"]
    ELSE [code |-> status, error |-> "reason"]
InternalErrorCode == 500
RequestFailed == [code |-> InternalErrorCode, error |-> "Request failed"]

\* How a call ended: it returned TextContent(str(result)) or raised
Returned(call, value) == [frame |-> call, raised |-> FALSE, result |-> value]
Raised(call, cause) ==
    [frame |-> call, raised |-> TRUE, result |-> [error |-> "RuntimeError", cause |-> cause]]

EndCall(outcome) ==
    /\ tool_log' = Append(tool_log, outcome)
    /\ tool_pc' = "idle"
    /\ tool_frame' = NoToolCall

\* The transport calls call_tool_handler(name, arguments)
CallTool(mode, name, arguments) ==
    /\ tool_pc = "idle"
    /\ Len(tool_log) < MaxToolCalls
    /\ tool_frame' = [mode |-> mode, name |-> name, arguments |-> arguments]
    /\ tool_pc' = "handler"
    /\ UNCHANGED tool_log
    /\ UNCHANGED <<now, ticks, cacheVars, searchVars, streamVars, zipVars, optVars, parseVars, logVars, resolveVars, shareVars>>

\* No branch takes the name: the handler raises RuntimeError, which
\* call_tool_handler catches and raises again as RuntimeError(str(e))
UnknownTool ==
    /\ tool_pc = "handler"
    /\ Branch(tool_frame.mode, tool_frame.name) = "unknown"
    /\ EndCall(Raised(tool_frame, "Unknown tool"))
    /\ UNCHANGED <<now, ticks, cacheVars, searchVars, streamVars, zipVars, optVars, parseVars, logVars, resolveVars, shareVars>>

\* The branch indexes a key the arguments lack: KeyError, raised again as
\* RuntimeError
HandlerRaises ==
    /\ tool_pc = "handler"
    /\ IndexesArguments(tool_frame.mode, tool_frame.name)
    /\ tool_frame.arguments = "incomplete"
    /\ EndCall(Raised(tool_frame, "KeyError"))
    /\ UNCHANGED <<now, ticks, cacheVars, searchVars, streamVars, zipVars, optVars, parseVars, logVars, resolveVars, shareVars>>

\* A branch that answers without the backend API returns its result; a
\* category tool without an action finds no endpoint and returns an error
HandlerReturns ==
    /\ tool_pc = "handler"
    /\ \/ /\ \/ Branch(tool_frame.mode, tool_frame.name) \in {"local", "log"}
             \/ /\ Branch(tool_frame.mode, tool_frame.name) = "schema"
                /\ tool_frame.arguments = "complete"
          /\ EndCall(Returned(tool_frame, [result |-> "data"]))
       \/ /\ Branch(tool_frame.mode, tool_frame.name) = "api"
          /\ IsCategoryTool(tool_frame.name)
          /\ tool_frame.arguments = "incomplete"
          /\ EndCall(Returned(tool_frame, [error |-> "No endpoint found"]))
    /\ UNCHANGED <<now, ticks, cacheVars, searchVars, streamVars, zipVars, optVars, parseVars, logVars, resolveVars, shareVars>>

\* The branch reaches _make_api_call
ApiRequest ==
    /\ tool_pc = "handler"
    /\ Branch(tool_frame.mode, tool_frame.name) = "api"
    /\ \/ tool_frame.arguments = "complete"
       \/ /\ ~IndexesArguments(tool_frame.mode, tool_frame.name)
          /\ ~IsCategoryTool(tool_frame.name)
    /\ tool_pc' = "request"
    /\ UNCHANGED <<tool_frame, tool_log>>
    /\ UNCHANGED <<now, ticks, cacheVars, searchVars, streamVars, zipVars, optVars, parseVars, logVars, resolveVars, shareVars>>

\* session.request answers with a status: schema_response is returned
ApiAnswers(status) ==
    /\ tool_pc = "request"
    /\ EndCall(Returned(tool_frame, SchemaResponse(status)))
    /\ UNCHANGED <<now, ticks, cacheVars, searchVars, streamVars, zipVars, optVars, parseVars, logVars, resolveVars, shareVars>>

\* session.request raises: _make_api_call returns the code 500 response
ApiFails(exc) ==
    /\ tool_pc = "request"
    /\ EndCall(Returned(tool_frame, RequestFailed))
    /\ UNCHANGED <<now, ticks, cacheVars, searchVars, streamVars, zipVars, optVars, parseVars, logVars, resolveVars, shareVars>>

InitTool ==
    /\ InitClock
    /\ NewCache(MaxCacheSize)
    /\ NewClient
    /\ NewStream("client")
    /\ NewZip(EmptyArchive)
    /\ NewOptimizer
    /\ parse_call = NoParse
    /\ NewServer
    /\ NewSharing
    /\ NewResolver
    /\ NewLogTools

NextTool ==
    \/ \E mode \in Modes, name \in ToolNames, arguments \in ToolArguments :
          CallTool(mode, name, arguments)
    \/ UnknownTool
    \/ HandlerRaises
    \/ HandlerReturns
    \/ ApiRequest
    \/ \E status \in HttpStatuses : ApiAnswers(status)
    \/ \E exc \in RequestErrors : ApiFails(exc)

SpecTool == InitTool /\ [][NextTool]_vars

(***************************************************************************)
(* handle_log_search and handle_log_check                                  *)
(***************************************************************************)
\* A where dict holds one key: "_and" or "_or" with a list of predicates, or
\* a field name with its value
LevelIsError == [field |-> "level", value |-> "error"]
UnitIsOsd == [field |-> "unit", value |-> "ceph-osd"]
WhereClauses ==
    { [key |-> "_and", items |-> <<LevelIsError>>],
      [key |-> "_and", items |-> <<LevelIsError, UnitIsOsd>>],
      [key |-> "_or", items |-> <<LevelIsError, UnitIsOsd>>],
      [key |-> "level", items |-> <<[value |-> "error"]>>] }
\* the dict {}
EmptyWhere == [key |-> None, items |-> <<>>]
SearchTexts == {"timeout"}

\* Condition texts of croit_log_check, as words
ConditionTexts ==
    { <<<<"o", "s", "d">>, <<"d", "o", "w", "n">>>>,
      <<<<"r", "e", "c", "e", "n", "t">>, <<"e", "r", "r", "o", "r", "s">>>>,
      <<<<"e", "r", "r", "o", "r", "s">>, <<"5">>, <<"m", "i", "n", "u", "t", "e", "s">>, <<"a", "g", "o">>>>,
      <<<<"p", "a", "s", "t">>, <<"2">>, <<"h", "o", "u", "r", "s">>>>,
      <<<<"c", "r", "a", "s", "h">>, <<"l", "a", "s", "t">>, <<"d", "a", "y">>>> }
TimeWindows == {60, 300}

\* The arguments objects a caller builds
SearchArguments ==
    { [NoArguments EXCEPT !.where = wh, !._search = text] :
        wh \in {<<>>} \cup {<<c>> : c \in WhereClauses},
        text \in {<<>>} \cup {<<t>> : t \in SearchTexts} }
CheckArguments ==
    { [NoArguments EXCEPT !.conditions = cs, !.time_window = tw] :
        cs \in {<<>>} \cup {<<(<<c>>)>> : c \in ConditionTexts}
                 \cup {<<(<<c, c>>)>> : c \in ConditionTexts},
        tw \in {<<>>} \cup {<<n>> : n \in TimeWindows} }

SecondsPerHour == 3600
\* arguments.get("hours_back", 1)
DefaultHoursBack == 1
\* arguments.get("time_window", 300)
DefaultTimeWindow == 300
\* arguments.get("threshold", 5)
DefaultThreshold == 5

\* calculate_time_range(hours_back) at clock reading t
calculate_time_range(hours_back, t) ==
    [start |-> t - hours_back * SecondsPerHour, end |-> t]

\* What the log export of the backend answers: logs, or a failure that
\* _execute_croit_http_export turns into an answer without logs
ExportOutcomes == {[kind |-> "ok", logs |-> logs] : logs \in LogLists}
                      \cup {[kind |-> "ClientError", logs |-> <<>>]}

\* handle_log_search of src/logs/croit_log_tools.py at clock reading t: the
\* caller's arguments afterwards, the queries sent and the returned value.
\* _handle_log_search hands over a shallow copy, so arguments["where"] is the
\* caller's own dict.
handle_log_search(arguments, t, outcome) ==
    LET where_clause == arguments.where
        search_text == arguments._search
        range == calculate_time_range(DefaultHoursBack, t)
        given == IF where_clause # <<>> THEN where_clause[1] ELSE EmptyWhere
        appends == search_text # <<>> /\ given.key = "_and"
        query_where ==
            IF search_text = <<>> THEN given
            ELSE IF appends
            THEN [given EXCEPT !.items = Append(@, [_search |-> search_text[1]])]
            ELSE [key |-> "_and", items |-> <<given, [_search |-> search_text[1]]>>]
        croit_query == [type |-> "query", start |-> range.start, end |-> range.end,
                        where |-> query_where]
    IN [arguments |-> IF appends /\ where_clause # <<>>
                      THEN [arguments EXCEPT !.where = <<query_where>>]
                      ELSE arguments,
        sent |-> <<croit_query>>,
        raised |-> FALSE,
        ret |-> [code |-> 200, total_count |-> Len(outcome.logs),
                 start_timestamp |-> range.start, end_timestamp |-> range.end]]

BadRequestCode == 400
LogErrorCode == 500

\* handle_log_search of croit_log_tools.py beside the server script
legacy_handle_log_search(arguments, t, outcome) ==
    LET where_clause == arguments.where
        range == calculate_time_range(DefaultHoursBack, t)
        croit_query == [type |-> "query", start |-> range.start, end |-> range.end,
                        where |-> where_clause[1], _search |-> arguments._search]
    IN IF where_clause = <<>>
       THEN [arguments |-> arguments, sent |-> <<>>, raised |-> FALSE,
             ret |-> [code |-> BadRequestCode, error |-> "where clause is required"]]
       ELSE [arguments |-> arguments, sent |-> <<croit_query>>, raised |-> FALSE,
             ret |-> IF outcome.kind = "ok"
                     THEN [code |-> 200, total_count |-> Len(outcome.logs),
                           start_timestamp |-> range.start, end_timestamp |-> range.end]
                     ELSE [code |-> LogErrorCode, error |-> outcome.kind]]

\* word.endswith(suffix), word.startswith(prefix)
EndsWith(word, suffix) ==
    /\ Len(word) >= Len(suffix)
    /\ SubSeq(word, Len(word) - Len(suffix) + 1, Len(word)) = suffix
StartsWith(word, prefix) ==
    Len(word) >= Len(prefix) /\ SubSeq(word, 1, Len(prefix)) = prefix
AllDigits(word) == word # <<>> /\ \A i \in 1..Len(word) : word[i] \in DigitChars
DigitValue(ch) == CHOOSE d \in 0..9 : Digit(d) = ch

\* int(word) of a word of digits
RECURSIVE int(_)
int(word) ==
    IF Len(word) = 1 THEN DigitValue(word[1])
    ELSE 10 * int(SubSeq(word, 1, Len(word) - 1)) + DigitValue(word[Len(word)])

\* str(n) of n >= 0, as in an f-string
RECURSIVE Decimal(_)
Decimal(n) == IF n < 10 THEN <<Digit(n)>> ELSE Decimal(n \div 10) \o <<Digit(n % 10)>>

\* the longest suffix of the word that consists of digits
DigitSuffix(word) ==
    LET from == CHOOSE i \in 1..(Len(word) + 1) :
                    /\ \A j \in i..Len(word) : word[j] \in DigitChars
                    /\ i > 1 => word[i - 1] \notin DigitChars
    IN SubSeq(word, from, Len(word))

\* timedelta(...) in seconds
SecondsOf(unit) ==
    CASE unit = "second" -> 1
      [] unit = "minute" -> 60
      [] unit = "hour" -> 3600
      [] unit = "day" -> 86400
      [] unit = "week" -> 604800

UnitWord(unit) ==
    CASE unit = "second" -> <<"s", "e", "c", "o", "n", "d">>
      [] unit = "minute" -> <<"m", "i", "n", "u", "t", "e">>
      [] unit = "hour" -> <<"h", "o", "u", "r">>
      [] unit = "day" -> <<"d", "a", "y">>
      [] unit = "week" -> <<"w", "e", "e", "k">>

\* patterns of _parse_time_range, in the order of the dict
TimePatterns ==
    << [pattern |-> <<"l", "a", "s", "t", " ", "h", "o", "u", "r">>, delta |-> 3600],
       [pattern |-> <<"p", "a", "s", "t", " ", "h", "o", "u", "r">>, delta |-> 3600],
       [pattern |-> <<"l", "a", "s", "t", " ", "d", "a", "y">>, delta |-> 86400],
       [pattern |-> <<"p", "a", "s", "t", " ", "d", "a", "y">>, delta |-> 86400],
       [pattern |-> <<"l", "a", "s", "t", " ", "w", "e", "e", "k">>, delta |-> 604800],
       [pattern |-> <<"r", "e", "c", "e", "n", "t">>, delta |-> 900] >>

NumberWords ==
    << <<"o", "n", "e">>, <<"t", "w", "o">>, <<"t", "h", "r", "e", "e">>, <<"f", "o", "u", "r">>, <<"f", "i", "v", "e">>, <<"s", "i", "x">>, <<"s", "e", "v", "e", "n">>, <<"e", "i", "g", "h", "t">>, <<"n", "i", "n", "e">>, <<"t", "e", "n">> >>

\* group 1 of the "X ago" regex when it ends at the end of the word
HasAmount(word) ==
    DigitSuffix(word) # <<>> \/ \E n \in 1..Len(NumberWords) : EndsWith(word, NumberWords[n])
AmountOf(word) ==
    IF DigitSuffix(word) # <<>> THEN int(DigitSuffix(word))
    ELSE CHOOSE n \in 1..Len(NumberWords) :
             /\ EndsWith(word, NumberWords[n])
             /\ \A m \in 1..Len(NumberWords) :
                    EndsWith(word, NumberWords[m]) => Len(NumberWords[m]) <= Len(NumberWords[n])

\* the unit a word spells, with or without a plural s
UnitsOf(word, units) == {u \in units : word = UnitWord(u) \/ word = UnitWord(u) \o <<"s">>}
UnitsStarting(word, units) == {u \in units : StartsWith(word, UnitWord(u))}

\* where r"(\d+|one|...|ten)\s+(second|minute|hour|day|week)s?\s+ago" matches
AgoMatches(ws) ==
    {k \in 1..(Len(ws) - 2) :
        /\ HasAmount(ws[k])
        /\ UnitsOf(ws[k + 1], {"second", "minute", "hour", "day", "week"}) # {}
        /\ StartsWith(ws[k + 2], <<"a", "g", "o">>)}

\* where r"(last|past)\s+(\d+)\s+(minute|hour|day|week)s?" matches
LastMatches(ws) ==
    {k \in 1..(Len(ws) - 2) :
        /\ EndsWith(ws[k], <<"l", "a", "s", "t">>) \/ EndsWith(ws[k], <<"p", "a", "s", "t">>)
        /\ AllDigits(ws[k + 1])
        /\ UnitsStarting(ws[k + 2], {"minute", "hour", "day", "week"}) # {}}

SetMin(S) == CHOOSE x \in S : \A y \in S : x <= y

\* _parse_time_range(text) at clock reading t, the text given as its words:
\* the seconds the range reaches back from t
TimeRangeDelta(ws) ==
    LET text_lower == Join([k \in 1..Len(ws) |-> StrLower(ws[k])])
        words == [k \in 1..Len(ws) |-> StrLower(ws[k])]
        fixed == {n \in 1..Len(TimePatterns) : Contains(text_lower, TimePatterns[n].pattern)}
    IN IF fixed # {} THEN TimePatterns[SetMin(fixed)].delta
       ELSE IF AgoMatches(words) # {}
       THEN LET k == SetMin(AgoMatches(words))
                unit == CHOOSE u \in UnitsOf(words[k + 1], {"second", "minute", "hour", "day", "week"}) : TRUE
            IN AmountOf(words[k]) * SecondsOf(unit)
       ELSE IF LastMatches(words) # {}
       THEN LET k == SetMin(LastMatches(words))
                unit == CHOOSE u \in UnitsStarting(words[k + 2], {"minute", "hour", "day", "week"}) : TRUE
            IN int(words[k + 1]) * SecondsOf(unit)
       ELSE SecondsPerHour

_parse_time_range(ws, t) == [start |-> t - TimeRangeDelta(ws), end |-> t]

\* f"{condition} in the last {time_window} seconds"
EnhancedCondition(condition, time_window) ==
    condition \o << <<"i", "n">>, <<"t", "h", "e">>, <<"l", "a", "s", "t">>,
                    Decimal(time_window), <<"s", "e", "c", "o", "n", "d", "s">> >>

\* What the searches of one croit_log_check call end in: every search finds
\* `count` logs, or the first one raises
CheckOutcomes == {[kind |-> "ok", count |-> 0], [kind |-> "ok", count |-> 7],
                  [kind |-> "Exception", count |-> 0]}

\* handle_log_check at clock reading t.  Each condition is searched with
\* client.search_logs, which takes the time range of its request from
\* _parse_time_range and answers a repeated text from the client's cache.
handle_log_check(arguments, t, outcome) ==
    LET conditions == IF arguments.conditions = <<>> THEN <<>> ELSE arguments.conditions[1]
        time_window == IF arguments.time_window = <<>> THEN DefaultTimeWindow
                       ELSE arguments.time_window[1]
        first == SelectSeq([i \in 1..Len(conditions) |-> i],
                           LAMBDA i : \A j \in 1..(i - 1) : conditions[j] # conditions[i])
        queried == [k \in 1..Len(first) |->
                       LET enhanced_condition ==
                               EnhancedCondition(conditions[first[k]], time_window)
                           time_range == _parse_time_range(enhanced_condition, t)
                       IN [type |-> "query", text |-> enhanced_condition,
                           start |-> time_range.start, end |-> time_range.end]]
    IN IF conditions = <<>>
       THEN [arguments |-> arguments, sent |-> <<>>, raised |-> FALSE,
             ret |-> [code |-> BadRequestCode, error |-> "Conditions are required"]]
       ELSE IF outcome.kind # "ok"
       THEN [arguments |-> arguments, sent |-> <<queried[1]>>, raised |-> FALSE,
             ret |-> [code |-> LogErrorCode, error |-> outcome.kind]]
       ELSE [arguments |-> arguments, sent |-> queried, raised |-> FALSE,
             ret |-> [code |-> 200, checks |-> Len(conditions),
                      alerts |-> IF outcome.count >= DefaultThreshold THEN Len(conditions) ELSE 0,
                      time_window |-> time_window]]

\* The caller builds an arguments object
PrepareArguments(arguments) ==
    /\ log_calls = <<>>
    /\ log_args = NoArguments
    /\ arguments # NoArguments
    /\ log_args' = arguments
    /\ UNCHANGED log_calls
    /\ UNCHANGED <<now, ticks, cacheVars, searchVars, streamVars, zipVars, optVars, parseVars, toolVars, resolveVars, shareVars>>

\* One finished call of a log tool with the caller's arguments object
LogCall(tool, r) ==
    /\ log_args' = r.arguments
    /\ log_calls' = Append(log_calls,
                           [tool |-> tool, given |-> log_args, at |-> now, sent |-> r.sent,
                            raised |-> r.raised, ret |-> r.ret])
    /\ UNCHANGED <<now, ticks, cacheVars, searchVars, streamVars, zipVars, optVars, parseVars, toolVars, resolveVars, shareVars>>

\* _handle_log_search of the server with handle_log_search of src/logs
LogSearch(outcome) ==
    /\ Len(log_calls) < MaxLogCalls
    /\ LogCall("croit_log_search", handle_log_search(log_args, now, outcome))

\* _handle_log_search of the server with handle_log_search of the module
\* beside the server script
LegacyLogSearch(outcome) ==
    /\ Len(log_calls) < MaxLogCalls
    /\ LogCall("legacy croit_log_search", legacy_handle_log_search(log_args, now, outcome))

\* _handle_log_check of the server with handle_log_check
LogCheck(outcome) ==
    /\ Len(log_calls) < MaxLogCalls
    /\ LogCall("croit_log_check", handle_log_check(log_args, now, outcome))

LogTick ==
    /\ \E d \in Delays : Tick(d)
    /\ UNCHANGED <<cacheVars, searchVars, streamVars, zipVars, optVars, parseVars, toolVars, logVars, resolveVars, shareVars>>

InitLog ==
    /\ InitClock
    /\ NewCache(MaxCacheSize)
    /\ NewClient
    /\ NewStream("client")
    /\ NewZip(EmptyArchive)
    /\ NewOptimizer
    /\ parse_call = NoParse
    /\ NewServer
    /\ NewSharing
    /\ NewResolver
    /\ NewLogTools

NextLog ==
    \/ \E arguments \in SearchArguments \cup CheckArguments : PrepareArguments(arguments)
    \/ \E outcome \in ExportOutcomes : LogSearch(outcome)
    \/ \E outcome \in ExportOutcomes : LegacyLogSearch(outcome)
    \/ \E outcome \in CheckOutcomes : LogCheck(outcome)
    \/ LogTick

SpecLog == InitLog /\ [][NextLog]_vars

(***************************************************************************)
(* _resolve_refs_in_schema and resolve_references.  A document is a root   *)
(* schema and the component schemas that references name (by number).  A   *)
(* call of the resolver is a record of its arguments: the schema, depth    *)
(* and the set of references seen; `path` and `level` are history: the     *)
(* references expanded and the descents made on the way to the call.       *)
(***************************************************************************)
RefTo(name) == SchemaNode(<<name>>, <<>>)
Object(children) == SchemaNode(<<>>, children)
Primitive == SchemaNode(<<>>, <<>>)

Documents ==
    { \* no cycle; one schema referenced on two branches
      [root |-> Object(<<RefTo(1), RefTo(1), Primitive>>),
       components |-> <<Object(<<RefTo(2)>>), Object(<<Primitive>>)>>],
      \* a schema that refers to itself
      [root |-> RefTo(1),
       components |-> <<Object(<<RefTo(1), Primitive>>)>>],
      \* two schemas that refer to each other
      [root |-> Object(<<RefTo(1)>>),
       components |-> <<Object(<<RefTo(2), RefTo(2)>>), Object(<<RefTo(1)>>)>>],
      \* references that name references, in a cycle
      [root |-> RefTo(1),
       components |-> <<RefTo(2), RefTo(1)>>],
      \* three schemas in a cycle, entered from a list of alternatives
      [root |-> Object(<<Object(<<RefTo(1), RefTo(3)>>), Primitive>>),
       components |-> <<Object(<<RefTo(2)>>), Object(<<Primitive, RefTo(3)>>),
                        Object(<<RefTo(1)>>)>>],
      \* nested schemas without references
      [root |-> Object(<<Object(<<Object(<<Primitive>>), Primitive>>)>>),
       components |-> <<>>],
      \* a chain of schemas deeper than the ceiling, the first of which also
      \* refers to itself
      [root |-> RefTo(1),
       components |-> [n \in 1..ChainLength |->
                          IF n = 1 THEN Object(<<RefTo(1), RefTo(2)>>)
                          ELSE IF n < ChainLength THEN Object(<<RefTo(n + 1)>>)
                          ELSE Primitive]] }

DepthCeiling == 10

ResolveCall(node, depth, seen, path, level) ==
    [node |-> node, depth |-> depth, seen |-> seen, path |-> path, level |-> level]

\* variant: the reference is not added to seen_refs
_resolve_refs_in_schema_forgetsRef(doc, call) ==
    IF call.depth > DepthCeiling THEN <<>>
    ELSE IF call.node.ref # <<>>
    THEN IF call.node.ref[1] \in call.seen THEN <<>>
         ELSE <<ResolveCall(doc.components[call.node.ref[1]], call.depth + 1,
                            call.seen,
                            Append(call.path, call.node.ref[1]), call.level + 1)>>
    ELSE [k \in 1..Len(call.node.children) |->
             ResolveCall(call.node.children[k], call.depth + 1, call.seen,
                         call.path, call.level + 1)]

\* The calls that one call of _resolve_refs_in_schema makes
_resolve_refs_in_schema(doc, call) ==
    IF call.depth > DepthCeiling THEN <<>>
    ELSE IF call.node.ref # <<>>
    THEN IF call.node.ref[1] \in call.seen THEN <<>>
         ELSE <<ResolveCall(doc.components[call.node.ref[1]], call.depth + 1,
                            call.seen \cup {call.node.ref[1]},
                            Append(call.path, call.node.ref[1]), call.level + 1)>>
    ELSE [k \in 1..Len(call.node.children) |->
             ResolveCall(call.node.children[k], call.depth + 1, call.seen,
                         call.path, call.level + 1)]

\* The calls that one call of resolve_references makes; it has no depth
\* parameter
resolve_references(doc, call) ==
    IF call.node.ref # <<>>
    THEN IF call.node.ref[1] \in call.seen THEN <<>>
         ELSE <<ResolveCall(doc.components[call.node.ref[1]], call.depth,
                            call.seen \cup {call.node.ref[1]},
                            Append(call.path, call.node.ref[1]), call.level + 1)>>
    ELSE [k \in 1..Len(call.node.children) |->
             ResolveCall(call.node.children[k], call.depth, call.seen,
                         call.path, call.level + 1)]

CallsOf(fn, doc, call) ==
    IF fn = "schema" THEN _resolve_refs_in_schema(doc, call) ELSE resolve_references(doc, call)

TopCall == res_stack[Len(res_stack)]
Pop == SubSeq(res_stack, 1, Len(res_stack) - 1)
AtCeiling == res_fn = "schema" /\ TopCall.depth > DepthCeiling

\* The resolver is called on the root schema of a document
ResolveStart(fn, doc) ==
    /\ res_fn = None
    /\ res_fn' = fn
    /\ res_doc' = doc
    /\ res_stack' = <<ResolveCall(doc.root, 0, {}, <<>>, 0)>>
    /\ UNCHANGED res_hist
    /\ UNCHANGED <<now, ticks, cacheVars, searchVars, streamVars, zipVars, optVars, parseVars, toolVars, logVars, shareVars>>

\* depth > 10: the call returns the schema as it is
ResolveCeiling ==
    /\ res_stack # <<>>
    /\ AtCeiling
    /\ res_stack' = Pop \o CallsOf(res_fn, res_doc, TopCall)
    /\ res_hist' = [res_hist EXCEPT !.ceiling = 1]
    /\ UNCHANGED <<res_fn, res_doc>>
    /\ UNCHANGED <<now, ticks, cacheVars, searchVars, streamVars, zipVars, optVars, parseVars, toolVars, logVars, shareVars>>

\* The schema is a reference seen before: a placeholder (or nothing) is
\* returned
ResolveSeenAgain ==
    /\ res_stack # <<>>
    /\ ~AtCeiling
    /\ TopCall.node.ref # <<>>
    /\ TopCall.node.ref[1] \in TopCall.seen
    /\ res_stack' = Pop \o CallsOf(res_fn, res_doc, TopCall)
    /\ res_hist' = [res_hist EXCEPT !.placeholders = 1]
    /\ UNCHANGED <<res_fn, res_doc>>
    /\ UNCHANGED <<now, ticks, cacheVars, searchVars, streamVars, zipVars, optVars, parseVars, toolVars, logVars, shareVars>>

\* The schema is a reference not seen before: the call resolves it and goes
\* on in the schema it names
ResolveExpand ==
    /\ res_stack # <<>>
    /\ ~AtCeiling
    /\ TopCall.node.ref # <<>>
    /\ TopCall.node.ref[1] \notin TopCall.seen
    /\ res_stack' = Pop \o CallsOf(res_fn, res_doc, TopCall)
    /\ res_hist' = [res_hist EXCEPT
           !.expanded = 1,
           !.deepest = IF TopCall.level + 1 > @ THEN TopCall.level + 1 ELSE @,
           !.again = @ \/ \E k \in 1..Len(TopCall.path) : TopCall.path[k] = TopCall.node.ref[1]]
    /\ UNCHANGED <<res_fn, res_doc>>
    /\ UNCHANGED <<now, ticks, cacheVars, searchVars, streamVars, zipVars, optVars, parseVars, toolVars, logVars, shareVars>>

\* The schema is no reference: the call goes into its nested schemas
ResolveNested ==
    /\ res_stack # <<>>
    /\ ~AtCeiling
    /\ TopCall.node.ref = <<>>
    /\ res_stack' = Pop \o CallsOf(res_fn, res_doc, TopCall)
    /\ res_hist' = [res_hist EXCEPT
           !.deepest = IF TopCall.node.children # <<>> /\ TopCall.level + 1 > @
                       THEN TopCall.level + 1 ELSE @]
    /\ UNCHANGED <<res_fn, res_doc>>
    /\ UNCHANGED <<now, ticks, cacheVars, searchVars, streamVars, zipVars, optVars, parseVars, toolVars, logVars, shareVars>>

InitResolve ==
    /\ InitClock
    /\ NewCache(MaxCacheSize)
    /\ NewClient
    /\ NewStream("client")
    /\ NewZip(EmptyArchive)
    /\ NewOptimizer
    /\ parse_call = NoParse
    /\ NewServer
    /\ NewSharing
    /\ NewLogTools
    /\ NewResolver

NextResolve ==
    \/ \E fn \in {"schema", "swagger"}, doc \in Documents : ResolveStart(fn, doc)
    \/ ResolveCeiling
    \/ ResolveSeenAgain
    \/ ResolveExpand
    \/ ResolveNested

\* The resolver is a chain of synchronous calls: a call that can run does
SpecResolve == InitResolve /\ [][NextResolve]_vars /\ WF_vars(NextResolve)

(***************************************************************************)
(* search_optimized and optimize_response_size                             *)
(* (src/logs/croit_log_tools.py).  A result holds its log dicts and its    *)
(* critical events by reference: `objects` gives each dict under its       *)
(* identity, and results and cache entries name the dicts by identity.     *)
(***************************************************************************)
\* A message of n characters that holds no critical keyword
Message(n) == [k \in 1..n |-> "x"]
LogDict(n, priority) ==
    [MESSAGE |-> Message(n), PRIORITY |-> priority, _message_truncated |-> FALSE]

\* search_optimized: max_log_entries=50, max_message_length=150
OptimizedEntries == 50
OptimizedMessageLength == 150
\* the defaults of optimize_response_size
DefaultEntries == 50
DefaultMessageLength == 200
\* summarize_logs(logs, max_details=20)
MaxDetails == 20
\* critical_events[:50] and logs[-50:] of search_logs
CriticalLogsShown == 50
PreviewLength == 100
PatternLimit == 10
OptimizedPatterns == 5
ScorePerPriority == 10

Ellipsis == <<".", ".", ".">>
TruncatedMark == Ellipsis \o <<"[", "t", "r", "u", "n", "c", "a", "t", "e", "d", "]">>

\* The logs one backend answer may hold: none; a short message; messages at
\* and just over the length search_optimized keeps; a message whose preview
\* is shortened beside one over the default length; and a list of more than
\* OptimizedEntries records, with long messages on a critical record (2) and
\* on a record (21) that the optimized result leaves out.
BackendLogs ==
    { <<>>,
      <<LogDict(3, 6)>>,
      <<LogDict(OptimizedMessageLength, 3)>>,
      <<LogDict(OptimizedMessageLength + 1, 3)>>,
      <<LogDict(PreviewLength + 20, 6), LogDict(DefaultMessageLength + 1, 3)>>,
      [k \in 1..(OptimizedEntries + 1) |->
          IF k = 2 THEN LogDict(OptimizedMessageLength + 1, 3)
          ELSE IF k = MaxDetails + 1 THEN LogDict(OptimizedMessageLength + 1, 6)
          ELSE LogDict(1, 6)] }
\* How many patterns _analyze_patterns finds in an answer
PatternCounts == {0, 7}
\* The arguments of direct optimize_response_size calls
SizeLimits ==
    { [max_log_entries |-> DefaultEntries, max_message_length |-> DefaultMessageLength],
      [max_log_entries |-> 1, max_message_length |-> PreviewLength] }

Range(s) == {s[k] : k \in DOMAIN s}
\* s[-n:]
LastN(s, n) == IF n = 0 THEN s ELSE SubSeq(s, Max(1, Len(s) - n + 1), Len(s))

\* criticality_score of a log whose message holds no keyword
Score(log) == log.PRIORITY * ScorePerPriority

\* The identities of logs in the order of critical_logs.sort(key=score),
\* which is stable
RECURSIVE SortedByScore(_, _)
SortedByScore(logs, ids) ==
    IF ids = {} THEN <<>>
    ELSE LET m == CHOOSE i \in ids : \A j \in ids :
                      \/ Score(logs[i]) < Score(logs[j])
                      \/ Score(logs[i]) = Score(logs[j]) /\ i <= j
         IN <<m>> \o SortedByScore(logs, ids \ {m})

message_preview(log) ==
    IF Len(log.MESSAGE) > PreviewLength
    THEN Slice(log.MESSAGE, PreviewLength) \o Ellipsis
    ELSE log.MESSAGE

\* The event dicts of the max_events most critical logs; "log" is the
\* identity of the log dict
_extract_critical_events(logs, max_events) ==
    LET order == SortedByScore(logs, 1..Len(logs))
    IN [k \in 1..Min(max_events, Len(order)) |->
           [log |-> order[k], score |-> Score(logs[order[k]]),
            message_preview |-> message_preview(logs[order[k]])]]

\* The logs of the first `half` critical events, then those of the last
\* `half` results that are not among them, cut to `limit`
PrioritySelection(results, events, half, limit) ==
    LET critical_logs == [k \in 1..Len(Slice(events, half)) |-> events[k].log]
        IsRecent(l) == l \notin Range(critical_logs)
        recent_logs == SelectSeq(LastN(results, half), IsRecent)
    IN Slice(critical_logs \o recent_logs, limit)

\* Lines 412-462 of search_logs: the dicts the call creates and the cache
\* entry that refers to them
search_logs_result(logs, patterns, t) ==
    LET ids == [k \in 1..Len(logs) |-> k]
        events == _extract_critical_events(logs, MaxDetails)
        results == IF Len(logs) > ResultLimit
                   THEN PrioritySelection(ids, events, CriticalLogsShown, ResultLimit)
                   ELSE Slice(ids, ResultLimit)
    IN [objects |-> [logs |-> logs, events |-> events],
        entry |-> [timestamp |-> t,
                   data |-> [results |-> results,
                             critical_events |-> [k \in 1..Len(events) |-> k],
                             patterns |-> Min(patterns, PatternLimit),
                             optimization_applied |-> <<>>]]]

\* optimize_response_size(data, max_log_entries, max_message_length): the
\* dicts after the call and the value returned.  data.copy() copies the top
\* level only, so the log and event dicts written to are those of data.
optimize_response_size(objs, data, max_log_entries, max_message_length) ==
    LET half == max_log_entries \div 2
        events == [k \in DOMAIN data.critical_events |-> objs.events[data.critical_events[k]]]
        trimmed == Len(data.results) > max_log_entries
        results == IF trimmed
                   THEN PrioritySelection(data.results, events, half, max_log_entries)
                   ELSE data.results
        logs1 == [i \in DOMAIN objs.logs |->
                     IF i \in Range(results) /\ Len(objs.logs[i].MESSAGE) > max_message_length
                     THEN [objs.logs[i] EXCEPT
                              !.MESSAGE = Slice(@, max_message_length) \o TruncatedMark,
                              !._message_truncated = TRUE]
                     ELSE objs.logs[i]]
        events1 == [e \in DOMAIN objs.events |->
                       IF /\ e \in Range(data.critical_events)
                          /\ Len(objs.events[e].message_preview) > max_message_length
                       THEN [objs.events[e] EXCEPT
                                !.message_preview = Slice(@, max_message_length) \o Ellipsis]
                       ELSE objs.events[e]]
    IN [objects |-> [logs |-> logs1, events |-> events1],
        ret |-> [results |-> results,
                 critical_events |-> data.critical_events,
                 patterns |-> Min(data.patterns, OptimizedPatterns),
                 optimization_applied |->
                     IF trimmed
                     THEN <<[original_count |-> Len(data.results),
                             optimized_count |-> Len(results)]>>
                     ELSE <<>>]]

\* What a result shows to the one who reads it: its dicts looked up
View(objs, data) ==
    [results |-> [k \in DOMAIN data.results |-> objs.logs[data.results[k]]],
     critical_events |-> [k \in DOMAIN data.critical_events |->
                             objs.events[data.critical_events[k]]],
     patterns |-> data.patterns,
     optimization_applied |-> data.optimization_applied]

\* search_logs for the query: the data of the fresh cache entry, or a result
\* built from the logs the backend delivers and stored under the query
search_logs_shared(logs, patterns) ==
    IF cache_entry # <<>> /\ IsFresh(cache_entry[1], now)
    THEN [objects |-> objects, entry |-> cache_entry[1], hit |-> TRUE]
    ELSE LET r == search_logs_result(logs, patterns, now)
         IN [objects |-> r.objects, entry |-> r.entry, hit |-> FALSE]

ShareCall(fn, hit, stored, returned) ==
    [fn |-> fn, hit |-> hit, stored |-> stored, returned |-> returned]

\* A search_logs call for the query
ShareSearchLogs(logs, patterns) ==
    /\ Len(share_hist.calls) < MaxShareCalls
    /\ LET s == search_logs_shared(logs, patterns)
           stored == IF s.hit THEN share_hist.stored ELSE <<View(s.objects, s.entry.data)>>
       IN /\ objects' = s.objects
          /\ cache_entry' = <<s.entry>>
          /\ share_hist' = [stored |-> stored,
                            calls |-> Append(share_hist.calls,
                                ShareCall("search_logs", s.hit, stored,
                                          View(s.objects, s.entry.data)))]
    /\ UNCHANGED <<now, ticks, cacheVars, searchVars, streamVars, zipVars, optVars, parseVars, toolVars, logVars, resolveVars>>

\* A search_optimized call for the query: search_logs, then
\* optimize_response_size on the result it returned
search_optimized(logs, patterns) ==
    /\ Len(share_hist.calls) < MaxShareCalls
    /\ LET s == search_logs_shared(logs, patterns)
           stored == IF s.hit THEN share_hist.stored ELSE <<View(s.objects, s.entry.data)>>
           o == optimize_response_size(s.objects, s.entry.data,
                                       OptimizedEntries, OptimizedMessageLength)
       IN /\ objects' = o.objects
          /\ cache_entry' = <<s.entry>>
          /\ share_hist' = [stored |-> stored,
                            calls |-> Append(share_hist.calls,
                                ShareCall("search_optimized", s.hit, stored,
                                          View(o.objects, o.ret)))]
    /\ UNCHANGED <<now, ticks, cacheVars, searchVars, streamVars, zipVars, optVars, parseVars, toolVars, logVars, resolveVars>>

\* optimize_response_size called on the result an earlier search_logs call
\* returned, which is the object the cache holds
OptimizeResponseSize(limits) ==
    /\ Len(share_hist.calls) < MaxShareCalls
    /\ cache_entry # <<>>
    /\ LET o == optimize_response_size(objects, cache_entry[1].data,
                                       limits.max_log_entries, limits.max_message_length)
       IN /\ objects' = o.objects
          /\ share_hist' = [share_hist EXCEPT !.calls = Append(@,
                                ShareCall("optimize_response_size", FALSE, share_hist.stored,
                                          View(o.objects, o.ret)))]
    /\ UNCHANGED cache_entry
    /\ UNCHANGED <<now, ticks, cacheVars, searchVars, streamVars, zipVars, optVars, parseVars, toolVars, logVars, resolveVars>>

ShareTick ==
    /\ \E d \in SearchDelays : Tick(d)
    /\ UNCHANGED <<cacheVars, searchVars, streamVars, zipVars, optVars, parseVars, toolVars, logVars, resolveVars, shareVars>>

InitShare ==
    /\ InitClock
    /\ NewCache(MaxCacheSize)
    /\ NewClient
    /\ NewStream("client")
    /\ NewZip(EmptyArchive)
    /\ NewOptimizer
    /\ parse_call = NoParse
    /\ NewServer
    /\ NewLogTools
    /\ NewResolver
    /\ NewSharing

NextShare ==
    \/ \E logs \in BackendLogs, patterns \in PatternCounts : ShareSearchLogs(logs, patterns)
    \/ \E logs \in BackendLogs, patterns \in PatternCounts : search_optimized(logs, patterns)
    \/ \E limits \in SizeLimits : OptimizeResponseSize(limits)
    \/ ShareTick

SpecShare == InitShare /\ [][NextShare]_vars

InitCache ==
    /\ InitClock
    /\ \E size \in 0..MaxCacheSize : NewCache(size)
    /\ NewClient
    /\ NewStream("client")
    /\ NewZip(EmptyArchive)
    /\ NewOptimizer
    /\ parse_call = NoParse
    /\ NewServer
    /\ NewSharing
    /\ NewResolver
    /\ NewLogTools

NextCache ==
    \/ \E c \in GetCalls : CacheGet(c.url, c.method, c.params)
    \/ \E c \in SetCalls : CacheSet(c.url, c.method, c.data, c.params, c.ttl)
    \/ CacheClear
    \/ CacheTick

SpecCache == InitCache /\ [][NextCache]_vars

(***************************************************************************)
(* Claims about the ResponseCache                                          *)
(***************************************************************************)
Expiry(entry) == entry.timestamp + entry.ttl

\* C1: an entry stored at time t with TTL d is visible to get only while
\* now < t + d; a get at any time now >= t + d, the instant now = t + d
\* included, returns a miss.
C1_MissFromExpiryInstant ==
    [][(op'.name = "get" /\ op'.key \in DOMAIN cache
            /\ now >= Expiry(cache[op'.key]))
        => op'.ret = None]_vars

\* C2: a get of a key that set has stored returns the stored data while the
\* TTL has not elapsed; a get of a key whose entry has expired returns a miss
\* and removes that entry from the entry map and from the access-time map,
\* every other entry and access time staying as it was.
C2_GetAfterSetAndAfterExpiry ==
    [][/\ op'.name = "set" =>
            /\ op'.key \in DOMAIN cache'
            /\ cache'[op'.key].data = op'.arg
            /\ cache'[op'.key].timestamp = now
       /\ (op'.name = "get" /\ op'.key \in DOMAIN cache
               /\ now < Expiry(cache[op'.key])) =>
            /\ op'.ret = cache[op'.key].data
            /\ cache' = cache
       /\ (op'.name = "get" /\ op'.key \in DOMAIN cache
               /\ now > Expiry(cache[op'.key])) =>
            /\ op'.ret = None
            /\ cache' = Without(cache, op'.key)
            /\ access_times' = DictDel(access_times, op'.key)
            /\ op'.key \notin DictKeys(access_times')
      ]_vars

\* C2 witness: a get has just purged an expired entry, and another entry is
\* still stored.
C2_Witness ==
    /\ op.name = "get"
    /\ op.ret = None
    /\ op.removed = {op.key}
    /\ cache # <<>>

\* C3: with max_size >= 1 the number of stored entries never exceeds max_size.
C3_SizeBounded ==
    max_size >= 1 => Cardinality(DOMAIN cache) <= max_size

\* C3 witness: a set on a full cache of the largest capacity has evicted an entry and
\* left the cache full.
C3_Witness ==
    /\ max_size = MaxCacheSize
    /\ op.name = "set"
    /\ op.removed # {}
    /\ Cardinality(DOMAIN cache) = max_size

\* C4: when set inserts a new key into a cache that holds max_size entries
\* (max_size >= 1), exactly one stored entry is evicted, and its latest access
\* (set or successful get) is not later than that of any other stored entry.
C4_EvictsLeastRecentlyUsed ==
    [][(op'.name = "set" /\ op'.key \notin DOMAIN cache /\ max_size >= 1
            /\ Cardinality(DOMAIN cache) = max_size)
        => \E victim \in DOMAIN cache :
               /\ DOMAIN cache' = ((DOMAIN cache) \ {victim}) \cup {op'.key}
               /\ \A k \in DOMAIN cache : lastUse[victim] <= lastUse[k]
               /\ \A k \in (DOMAIN cache) \ {victim} : cache'[k] = cache[k]]_vars

\* C4 witness: a set of a new key has evicted one of two entries, and the
\* entry that stayed was accessed after it was stored.
C4_Witness ==
    /\ op.name = "set"
    /\ ~op.stored
    /\ Cardinality(op.removed) = 1
    /\ \E k \in DOMAIN cache : k # op.key /\ lastUse[k] > cache[k].timestamp

(***************************************************************************)
(* Claims about search_logs                                                *)
(***************************************************************************)
KeyOfCall(c) == cache_key(frame[c].input.search_query, frame[c].input.limit)

\* C5: within one search_logs call the cache lookup comes before any backend
\* request; a backend request is issued only when the key was absent or its
\* entry was cache_ttl seconds old or older; and the cache is written only by
\* a call whose backend request (WebSocket or HTTP) has just completed, with
\* the result built from that answer.
C5_LookupThenRequestThenWrite ==
    [][\A c \in Calls :
        /\ (pc[c] # "ws" /\ pc'[c] = "ws") =>
              /\ pc[c] = "idle"
              /\ LET key == cache_key(frame'[c].input.search_query, frame'[c].input.limit)
                 IN \/ key \notin DOMAIN client_cache
                    \/ now - client_cache[key].timestamp >= cache_ttl
        /\ (pc[c] # "http" /\ pc'[c] = "http") => pc[c] = "ws"
        /\ (pc[c] = "idle" /\ pc'[c] # "idle") => client_cache' = client_cache
        /\ (client_cache' # client_cache) =>
              \E d \in Calls :
                  /\ pc[d] \in {"ws", "http"}
                  /\ pc'[d] = "returned"
                  /\ client_cache' = With(client_cache, KeyOfCall(d),
                                          [timestamp |-> now, data |-> result'[d]])
      ]_vars

\* C5 witness: a call that found a stale entry has queried the backend and
\* has written its result to the cache.
C5_Witness ==
    \E c \in Calls :
        /\ pc[c] = "returned"
        /\ frame[c].lookup = "stale"
        /\ frame[c].ws = "ok"
        /\ client_cache[KeyOfCall(c)] = [timestamp |-> now, data |-> result[c]]

\* protocol error, network error, timeout
ConnectionFailures == {"WebSocketException", "OSError", "TimeoutError"}

\* C6: the WebSocket channel is tried first; the HTTP channel is queried if
\* and only if the WebSocket attempt ended in a connection-level failure; and
\* whichever channel answered, the caller gets a flat list of log records.
C6_FallbackIffConnectionFailure ==
    \A c \in Calls :
        /\ pc[c] = "http" <=> frame[c].ws \in ConnectionFailures
        /\ frame[c].http # None <=> frame[c].ws = "failed"
        /\ pc[c] = "raised" => (frame[c].ws \notin ConnectionFailures /\ frame[c].http = None)
        /\ pc[c] = "returned" =>
              \A i \in 1..Len(result[c].results) : result[c].results[i] \in LogRecords

\* C6 witness: the WebSocket attempt failed and the caller got the logs of the
\* HTTP channel.
C6_Witness ==
    \E c \in Calls :
        /\ pc[c] = "returned"
        /\ frame[c].ws = "failed"
        /\ frame[c].http = "ok"
        /\ result[c].results # <<>>

\* C7: when both channels have failed, the search returns an explicit error
\* result: an empty log list that is not the result of a successful search
\* that found no logs.
C7_BothFailedIsExplicit ==
    \A c \in Calls :
        (pc[c] = "returned" /\ frame[c].ws = "failed" /\ frame[c].http \in HttpFailures)
            => /\ result[c].results = <<>>
               /\ result[c] # BuildResult(frame[c].input, <<>>)

(***************************************************************************)
(* Claims about the WebSocket read loops                                   *)
(***************************************************************************)
\* WEBSOCKET_TIMEOUT_SECONDS of config/constants.py
WEBSOCKET_TIMEOUT_SECONDS == 30

\* C8: the read loop ends on the overall session timeout of 30 s or on the
\* per-message timeout of 5 s: no receive begins once 30 s have passed, and
\* in both cases the function returns the records collected so far as a
\* normal result, without raising.
C8_ReadLoopEndsOnTimeouts ==
    /\ ws_hist.latest_read < WEBSOCKET_TIMEOUT_SECONDS
    /\ ws_hist.exit \in {"session_timeout", "message_timeout"} =>
          /\ ws_pc = "done"
          /\ ~ws_ret.raised
          /\ ws_ret.logs = ws_logs
    /\ ws_hist.exit = "message_timeout" => elapsed = ws_hist.latest_read + MessageTimeout

\* C9: the read loop stops as soon as the server closes the stream or a
\* control signal ("empty", "too_wide", "error:<text>") is received: no
\* further message is read after a control signal.
C9_StopsAtClosureOrControlSignal ==
    /\ ws_hist.exit = "closed" => ws_pc = "done"
    /\ ws_hist.signal_seen => ws_pc = "done"
    /\ ~ws_hist.read_after_signal

(***************************************************************************)
(* Claims about _extract_logs_from_zip                                     *)
(***************************************************************************)
RECURSIVE Sum(_, _)
Sum(f, n) == IF n = 0 THEN 0 ELSE f[n] + Sum(f, n - 1)

\* the files of zip_data that were read and decoded
FilesRead == SubSeq(zip_data.files, 1, zip_i)
NonBlank(line) == \E i \in 1..Len(line) : line[i] \notin Whitespace
ValidJson(line) == \E i \in 1..Len(line) :
                       line[i] = "{}" /\ \A j \in (1..Len(line)) \ {i} : line[j] \in Whitespace
\* number of non-blank lines among the first n lines
NonBlankUpTo(lines, n) == Cardinality({i \in 1..n : NonBlank(lines[i])})
LineCount == [k \in 1..zip_i |-> Len(Lines(FilesRead[k].content))]
NonBlankCount ==
    [k \in 1..zip_i |-> NonBlankUpTo(Lines(FilesRead[k].content),
                                     Len(Lines(FilesRead[k].content)))]
AllRead == zip_data.valid /\ zip_i = Len(zip_data.files)

IsWrapper(v) == ~IsList(v) /\ "data" \in DOMAIN v /\ IsList(v.data)
HasItems(v) == IsList(v) \/ IsWrapper(v)
ItemsOf(v) == IF IsList(v) THEN v.list ELSE v.data.list
Optimized == opt_call.fn = "optimize_api_response"
FieldSet(fields) == {fields[i] : i \in 1..Len(fields)}

\* C11 as stated: optimize_api_response returns its input unchanged for every
\* response of at most 5 items, whatever the URL and the other arguments.
C11_SmallResponsesUnchanged ==
    (Optimized /\ HasItems(opt_call.args.data) /\ Len(ItemsOf(opt_call.args.data)) <= 5)
        => opt_call.ret = opt_call.args.data

\* C11 amended: for a response of at most 5 items, optimize_api_response
\* returns its input unchanged when no field selection is requested or
\* no_optimize is set, whatever the URL; with a field selection it returns
\* each item restricted to the requested fields the item has.  Nothing is
\* stored in either case.
C11_SmallResponsesUnchangedOrProjected ==
    (Optimized /\ HasItems(opt_call.args.data) /\ Len(ItemsOf(opt_call.args.data)) <= 5)
        => /\ DOMAIN _last_responses = {}
           /\ (opt_call.args.fields = <<>> \/ opt_call.args.params.no_optimize)
                 => opt_call.ret = opt_call.args.data
           /\ (opt_call.args.fields # <<>> /\ ~opt_call.args.params.no_optimize)
                 => /\ HasItems(opt_call.ret)
                    /\ Len(ItemsOf(opt_call.ret)) = Len(ItemsOf(opt_call.args.data))
                    /\ \A i \in 1..Len(ItemsOf(opt_call.ret)) :
                          LET given == ItemsOf(opt_call.args.data)[i]
                              got == ItemsOf(opt_call.ret)[i]
                          IN /\ DOMAIN got = DOMAIN given \cap FieldSet(opt_call.args.fields)
                             /\ \A f \in DOMAIN got : got[f] = given[f]

\* C11 witness: a list of exactly 5 items with a status field came back
\* unchanged from a call without field selection and with optimization on.
C11_Witness ==
    /\ Optimized
    /\ IsList(opt_call.args.data)
    /\ Len(opt_call.args.data.list) = 5
    /\ "status" \in DOMAIN opt_call.args.data.list[1]
    /\ opt_call.args.fields = <<>>
    /\ ~opt_call.args.params.no_optimize
    /\ opt_call.ret = opt_call.args.data

\* a medium or large request: no field selection, optimization on
PlainRequest == Optimized /\ opt_call.args.fields = <<>> /\ ~opt_call.args.params.no_optimize
IsPrefix(s, t) == Len(s) <= Len(t) /\ \A i \in 1..Len(s) : s[i] = t[i]

\* C12: for every response of 6 to 50 items with no field selection,
\* optimize_api_response returns the items truncated to the resource-type cap
\* together with the metadata {truncated: true, original_count,
\* returned_count, message}, where original_count is the input item count and
\* returned_count the number of items returned.
C12_MediumResponsesTruncated ==
    (PlainRequest /\ HasItems(opt_call.args.data)
        /\ Len(ItemsOf(opt_call.args.data)) \in 6..50)
        => /\ DOMAIN opt_call.ret = {"data", "_truncation_metadata"}
           /\ IsPrefix(opt_call.ret.data.list, ItemsOf(opt_call.args.data))
           /\ opt_call.ret._truncation_metadata.truncated
           /\ opt_call.ret._truncation_metadata.original_count
                 = Len(ItemsOf(opt_call.args.data))
           /\ opt_call.ret._truncation_metadata.returned_count
                 = Len(opt_call.ret.data.list)

\* C13: for every response of more than 50 items with no field selection (a
\* bare list, or a wrapper object whose 'data' field is the list),
\* optimize_api_response returns a smart summary that reports a total count
\* equal to the item count and a stored reference id, and does not return the
\* full item list.
C13_LargeResponsesSummarized ==
    (PlainRequest /\ HasItems(opt_call.args.data)
        /\ Len(ItemsOf(opt_call.args.data)) > 50)
        => /\ "total_count" \in DOMAIN opt_call.ret
           /\ opt_call.ret.total_count = Len(ItemsOf(opt_call.args.data))
           /\ "_response_id" \in DOMAIN opt_call.ret
           /\ opt_call.ret._response_id \in DOMAIN _last_responses
           /\ DOMAIN opt_call.ret \cap {"data", "items"} = {}

Searched == opt_call.fn = "search_stored_response"

\* C14: once optimize_api_response has returned a summary with reference id R
\* for backend data D, then after any sequence of later optimize and
\* drill-down calls search_stored_response(R, F, limit) returns
\* apply_filters(D, F) cut to limit, D being the original unoptimized data.
C14_DrillDownSeesOriginalData ==
    (Searched /\ opt_call.args.response_id # <<>>
        /\ opt_call.args.response_id[1] \in DOMAIN origin
        /\ opt_call.args.limit # <<0>>)
        => LET D == origin[opt_call.args.response_id[1]]
               hits == apply_filters(D, opt_call.args.filters)
           IN /\ "results" \in DOMAIN opt_call.ret
              /\ opt_call.ret.results =
                    IF opt_call.args.limit = <<>> \/ ~IsList(hits) THEN hits
                    ELSE PyList(Slice(hits.list, opt_call.args.limit[1]))

Truncated == opt_call.fn = "truncate_response"

\* C15: truncate_response never returns more items than it was given, and
\* whenever it attaches truncation metadata, original_count equals the length
\* of the original list, for every list, URL and max_items.
C15_TruncateNeverGrows ==
    Truncated =>
        /\ HasItems(opt_call.args.data) =>
              /\ HasItems(opt_call.ret)
              /\ Len(ItemsOf(opt_call.ret)) <= Len(ItemsOf(opt_call.args.data))
        /\ "_truncation_metadata" \in DOMAIN opt_call.ret =>
              /\ IsList(opt_call.args.data)
              /\ opt_call.ret._truncation_metadata.original_count
                    = Len(opt_call.args.data.list)

\* C15 witness: a list was cut to the resource cap, which is above the
\* max_items asked for, and the metadata was attached.
C15_Witness ==
    /\ Truncated
    /\ IsList(opt_call.args.data)
    /\ "_truncation_metadata" \in DOMAIN opt_call.ret
    /\ Len(opt_call.ret.data.list) < Len(opt_call.args.data.list)
    /\ Len(opt_call.ret.data.list) > opt_call.args.max_items
    /\ opt_call.args.max_items > 0

Filtered == opt_call.fn = "apply_filters"

\* C16: apply_filters is idempotent: for every data value (list or single
\* object) and every predicate set F,
\* apply_filters(apply_filters(data, F), F) = apply_filters(data, F).
C16_FiltersIdempotent ==
    Filtered => apply_filters(opt_call.ret, opt_call.args.filters) = opt_call.ret

\* C16 witness: a two-predicate filter set kept some items of a list and
\* removed others.
C16_Witness ==
    /\ Filtered
    /\ Len(opt_call.args.filters) = 2
    /\ IsList(opt_call.args.data)
    /\ IsList(opt_call.ret)
    /\ Len(opt_call.ret.list) >= 2
    /\ Len(opt_call.ret.list) < Len(opt_call.args.data.list)

RECURSIVE SumValues(_, _)
SumValues(f, keys) ==
    IF keys = {} THEN 0
    ELSE LET k == CHOOSE x \in keys : TRUE IN f[k] + SumValues(f, keys \ {k})

\* a list of more than 5 dicts that all carry a status field was summarized
SummarizedWithStatus ==
    /\ \/ opt_call.fn = "create_smart_summary"
       \/ PlainRequest
    /\ IsList(opt_call.args.data)
    /\ \A i \in 1..Len(opt_call.args.data.list) :
          "status" \in DOMAIN opt_call.args.data.list[i]
    /\ "total_count" \in DOMAIN opt_call.ret
CriticalGiven ==
    Cardinality({i \in 1..Len(opt_call.args.data.list) :
                    opt_call.args.data.list[i].status \in {"error", "failed", "down", "critical"}})
CriticalShownIn(ret) ==
    IF "critical_items" \in DOMAIN ret THEN Len(ret.critical_items) ELSE 0

\* C19: for a summarized list of dicts that all carry a status field, the
\* by_status counts of the summary sum to the number of items, and the number
\* of critical_items equals min(5, number of items whose status is error,
\* failed, down or critical).
C19_SummaryCountsAddUp ==
    SummarizedWithStatus =>
        /\ "by_status" \in DOMAIN opt_call.ret
        /\ SumValues(opt_call.ret.by_status, DOMAIN opt_call.ret.by_status)
              = Len(opt_call.args.data.list)
        /\ CriticalShownIn(opt_call.ret) = Min(5, CriticalGiven)

\* C19 witness: a summary of a list with several statuses, more than 5 of
\* its items critical, shows 5 critical items.
C19_Witness ==
    /\ SummarizedWithStatus
    /\ Cardinality(DOMAIN opt_call.ret.by_status) > 2
    /\ CriticalGiven > 5
    /\ CriticalShownIn(opt_call.ret) = 5

(***************************************************************************)
(* Claims about LogSearchIntentParser.parse                                *)
(***************************************************************************)
Severity == {"EMERGENCY", "ALERT", "CRITICAL", "ERROR", "WARNING", "NOTICE", "INFO", "DEBUG"}
ParsedText == Join([k \in 1..Len(parse_call.text) |-> StrLower(parse_call.text[k])])
SaysAllLevels ==
    \/ Contains(ParsedText, <<"a", "l", "l", " ", "l", "e", "v", "e", "l", "s">>)
    \/ Contains(ParsedText, <<"e", "v", "e", "r", "y", "t", "h", "i", "n", "g">>)

\* C17: for every input text that contains "all levels" or "everything",
\* parse returns an empty severity set, whichever topic patterns,
\* kernel/hardware words or performance words the text also contains.
C17_AllLevelsMeansNoSeverityFilter ==
    (parse_call.done /\ SaysAllLevels) => parse_call.intent.levels = {}

\* C18: for every input text, each severity in the intent returned by parse
\* is a member of the Severity enum.
C18_SeveritiesInEnum ==
    parse_call.done => parse_call.intent.levels \subseteq Severity

(***************************************************************************)
(* Claims about call_tool_handler                                          *)
(***************************************************************************)
\* C20: every exception raised while handling a tool call (unknown tool name,
\* failing handler, failing HTTP request) is caught at the outermost call
\* boundary and returned as a structured 500-equivalent result; no exception
\* propagates out of the tool-call handler to the transport layer.
C20_NoExceptionReachesTransport ==
    \A n \in 1..Len(tool_log) :
        /\ ~tool_log[n].raised
        /\ Branch(tool_log[n].frame.mode, tool_log[n].frame.name) = "unknown"
              => ("code" \in DOMAIN tool_log[n].result /\ tool_log[n].result.code = 500)

(***************************************************************************)
(* Further claims about the ResponseCache                                  *)
(***************************************************************************)
\* C25: in every reachable state of the ResponseCache, _cache and
\* _access_times have exactly the same key set.
C25_SameKeySets ==
    DOMAIN cache = DictKeys(access_times)

\* C25 witness: a clear has just emptied a cache that held entries, and the
\* two maps are both empty.
C25_Witness ==
    /\ op.name = "clear"
    /\ op.removed # {}
    /\ cache = <<>>
    /\ access_times = <<>>

\* C26: a set on a key that is already cached replaces only that key's
\* entry: every other entry stays stored and unchanged and the entry count
\* stays the same, even when the cache holds max_size entries.
C26_SetOnCachedKeyKeepsOthers ==
    [][(op'.name = "set" /\ op'.key \in DOMAIN cache)
        => /\ DOMAIN cache' = DOMAIN cache
           /\ \A k \in (DOMAIN cache) \ {op'.key} : cache'[k] = cache[k]]_vars

(***************************************************************************)
(* Further claims about search_logs                                        *)
(***************************************************************************)
\* C27: search_logs never returns a cached result whose age is cache_ttl
\* (300 s) or more: a call that found an entry of that age, ages of more than
\* one day included, has queried the backend before it returned.
C27_StaleEntryIsNeverServed ==
    \A c \in Calls :
        (pc[c] = "returned" /\ frame[c].lookup = "stale") => frame[c].ws # None

\* C30: a search_logs call in which the WebSocket channel and the HTTP
\* channel both failed leaves the result cache as it was, so that a later
\* call with the same query and limit contacts the backend again.
C30_FailedSearchIsNotCached ==
    [][\A c \in Calls :
          (pc[c] = "http" /\ pc'[c] = "returned" /\ frame'[c].http \in HttpFailures)
              => client_cache' = client_cache]_vars

(***************************************************************************)
(* Further claims about LogSearchIntentParser.parse                        *)
(***************************************************************************)
SeverityWords ==
    {<<"a", "l", "l", " ", "l", "e", "v", "e", "l">>,
     <<"a", "l", "l", " ", "l", "o", "g">>,
     <<"e", "v", "e", "r", "y", "t", "h", "i", "n", "g">>,
     <<"c", "r", "i", "t", "i", "c", "a", "l">>,
     <<"e", "m", "e", "r", "g", "e", "n", "c", "y">>,
     <<"e", "r", "r", "o", "r">>,
     <<"w", "a", "r", "n", "i", "n", "g">>,
     <<"w", "a", "r", "n">>,
     <<"i", "n", "f", "o">>,
     <<"d", "e", "b", "u", "g">>,
     <<"t", "r", "a", "c", "e">>}
KernelWords == {<<"k", "e", "r", "n", "e", "l">>, <<"h", "a", "r", "d", "w", "a", "r", "e">>, <<"d", "r", "i", "v", "e", "r">>, <<"s", "y", "s", "t", "e", "m">>}
NamesSeverity == \E word \in SeverityWords : Contains(ParsedText, word)
NamesProblem == \E word \in ProblemIndicators : Contains(ParsedText, word)
NamesKernel == \E word \in KernelWords : Contains(ParsedText, word)
NoticeAndAbove == {"NOTICE", "WARNING", "ERROR", "CRITICAL", "ALERT", "EMERGENCY"}

\* C22: when the text names no explicit severity and no problem-indicating
\* word, parse leaves the severity set empty, except when the text references
\* a kernel/hardware/driver/system topic: then the severity set is exactly
\* NOTICE and above.
C22_DefaultSeverities ==
    (parse_call.done /\ ~NamesSeverity /\ ~NamesProblem)
        => parse_call.intent.levels = IF NamesKernel THEN NoticeAndAbove ELSE {}

(***************************************************************************)
(* Claims about the log tools                                              *)
(***************************************************************************)
\* the required argument of the tool is missing from the arguments given
LacksRequired(call) ==
    IF call.tool = "croit_log_check" THEN call.given.conditions = <<>>
    ELSE call.given.where = <<>>

\* C21: a log tool call that lacks a required argument (croit_log_search
\* without 'where', croit_log_check without 'conditions') returns a result
\* with code 400 and an error field, raises no exception and sends no query
\* to the backend.
C21_MissingArgumentIsBadRequest ==
    \A n \in 1..Len(log_calls) :
        LacksRequired(log_calls[n])
            => /\ ~log_calls[n].raised
               /\ log_calls[n].ret.code = 400
               /\ "error" \in DOMAIN log_calls[n].ret
               /\ log_calls[n].sent = <<>>

\* C23: every query that croit_log_check issues for a condition has a time
\* range that starts time_window seconds (default 300) before the time of the
\* call and ends at it, the window the result reports.
C23_CheckQueriesTheTimeWindow ==
    \A n \in 1..Len(log_calls) :
        (log_calls[n].tool = "croit_log_check" /\ log_calls[n].ret.code = 200)
            => \A q \in 1..Len(log_calls[n].sent) :
                   /\ log_calls[n].sent[q].end = log_calls[n].at
                   /\ log_calls[n].sent[q].start
                          = log_calls[n].at - log_calls[n].ret.time_window

\* C29: handle_log_search does not modify the caller's arguments: after a
\* call whose 'where' has an '_and' list and whose '_search' text is
\* non-empty the caller's arguments are what they were, and a second call
\* with the same object at the same time sends the same query.
C29_SearchLeavesArgumentsAlone ==
    [][\A outcome \in ExportOutcomes :
          LogSearch(outcome)
              => /\ log_args' = log_args
                 /\ (log_calls # <<>> /\ log_calls[Len(log_calls)].tool = "croit_log_search"
                        /\ log_calls[Len(log_calls)].at = now)
                       => log_calls'[Len(log_calls')].sent = log_calls[Len(log_calls)].sent]_vars

(***************************************************************************)
(* Claims about the resolution of schema references                        *)
(***************************************************************************)
ResolutionDone == res_fn # None /\ res_stack = <<>>

C28_OptimizingLeavesCachedResult ==
    /\ cache_entry # <<>> =>
           View(objects, cache_entry[1].data) = share_hist.stored[1]
    /\ \A k \in 1..Len(share_hist.calls) :
           LET call == share_hist.calls[k]
           IN (call.fn = "search_logs" /\ call.hit) => call.returned = call.stored[1]

====
